---- MODULE Spec2Model ----
(***************************************************************************)
(* Branch-node encoding of the hexary-Patricia commitment trie             *)
(* (erigon-lib/commitment/commitment.go): the encoder EncodeBranch, the    *)
(* decoder DecodeCells, the two mergers BranchMerger.Merge and             *)
(* BranchData.MergeHexBranches, and the key rewriter ReplacePlainKeys.     *)
(*                                                                         *)
(* A Go byte slice is a record [isNil, data]: data is the sequence of its  *)
(* bytes (0..255) and isNil tells a nil slice from an empty one.  A Go     *)
(* index pos (0-based) is data[pos+1].  Every operation yields a record    *)
(* whose st field is "ok" (a result, nil error), "err" (an error value) or *)
(* "panic" (a run-time panic: index or slice bounds out of range).         *)
(***************************************************************************)
EXTENDS Integers, Sequences, FiniteSets, TLC

VARIABLES
    branch1,    \* first input slice of a merge / the receiver branchData
    branch2,    \* second input slice of a merge
    newData,    \* destination slice given to MergeHexBranches / ReplacePlainKeys
    row,        \* the cells the readCell callback of EncodeBranch serves
    bitmap,     \* EncodeBranch argument
    touchMap,   \* EncodeBranch argument
    afterMap,   \* EncodeBranch argument
    calls,      \* the readCell invocations of the last EncodeBranch, in order
    op,         \* the operation that produced out ("init" before any)
    out,        \* result of the last operation
    branch3,    \* third input slice, for a chain of two merges
    mbuf,       \* the bytes of the merger's scratch buffer m.buf
    results,    \* the slices earlier Merge calls returned and the caller still holds
    statKey,    \* the key given to DecodeBranchAndCollectStat
    total,      \* the BranchStat that Collect accumulates into
    collected,  \* the stats handed to total.Collect so far, in order
    loads,      \* the invocations of the load function so far, in order
    pcCalls,    \* the calls made on the PatriciaContext so far, in order
    updates     \* the pairs held by the collector be.updates, in collection order

\* the state used only by the later sections
others == <<branch3, mbuf, results, statKey, total, collected, loads, pcCalls, updates>>

vars == <<branch1, branch2, newData, row, bitmap, touchMap, afterMap, calls, op, out, others>>

(***************************************************************************)
(* Bounds of the model.                                                    *)
(***************************************************************************)
\* how many of the 16 nibbles the generated bitmaps may use
NumNibbles == 2
\* longest tail (bytes after the 4-byte header) of a raw, possibly malformed input
MaxTail == 2
\* longest field (extension, key or hash) of a generated cell
MaxFieldLen == 1

\* the nibbles used, in order of preference: both header bytes get bits
NibblePool == <<0, 9, 1, 15>>
UsedNibbles == {NibblePool[k] : k \in 1..NumNibbles}
AllNibbles == 0..15

(***************************************************************************)
(* uint16 / uint8 arithmetic                                               *)
(***************************************************************************)
RECURSIVE And(_, _)
And(a, b) == IF a = 0 \/ b = 0 THEN 0
             ELSE (a % 2) * (b % 2) + 2 * And(a \div 2, b \div 2)

RECURSIVE Or(_, _)
Or(a, b) == IF a = 0 THEN b
            ELSE IF b = 0 THEN a
            ELSE (IF a % 2 = 1 \/ b % 2 = 1 THEN 1 ELSE 0) + 2 * Or(a \div 2, b \div 2)

Bit(m, i) == (m \div (2 ^ i)) % 2
HasBit(m, i) == Bit(m, i) = 1
BitsOf(m) == {i \in AllNibbles : HasBit(m, i)}

RECURSIVE Mask(_)
Mask(S) == IF S = {} THEN 0
           ELSE LET i == CHOOSE x \in S : TRUE IN 2 ^ i + Mask(S \ {i})

\* bits.TrailingZeros16(bitset & -bitset): index of the lowest set bit
TrailingZeros16(m) == CHOOSE i \in BitsOf(m) : \A j \in BitsOf(m) : i <= j

RECURSIVE OnesCount8(_)
OnesCount8(x) == IF x = 0 THEN 0 ELSE (x % 2) + OnesCount8(x \div 2)

\* PartFlags
HashedKeyPart == 1
AccountPlainPart == 2
StoragePlainPart == 4
HashPart == 8

MaxVarintLen64 == 10

(***************************************************************************)
(* byte-slice helpers                                                      *)
(***************************************************************************)
Slice(b, lo, hi) == SubSeq(b, lo + 1, hi)               \* b[lo:hi]
Uint16(b, pos) == b[pos + 1] * 256 + b[pos + 2]         \* binary.BigEndian.Uint16(b[pos:])
PutUint16(v) == <<v \div 256, v % 256>>                 \* binary.BigEndian.PutUint16

NilSlice == [isNil |-> TRUE, data |-> <<>>]
Bytes(d) == [isNil |-> FALSE, data |-> d]

\* binary.Uvarint(buf[pos:]): the value l and the number n of bytes read;
\* n = 0 when the buffer ends inside the number, n < 0 on a 64-bit overflow.
\* Values stay below 2^28 here (at most four continuation bytes are ever
\* available), so the conversion int(l) keeps the value.
RECURSIVE UvarintFrom(_, _, _, _, _)
UvarintFrom(buf, pos, i, x, s) ==
    IF pos + i >= Len(buf) THEN [l |-> 0, n |-> 0]
    ELSE IF i = MaxVarintLen64 THEN [l |-> 0, n |-> -(i + 1)]
    ELSE LET b == buf[pos + i + 1] IN
         IF b < 128
         THEN IF i = MaxVarintLen64 - 1 /\ b > 1
              THEN [l |-> 0, n |-> -(i + 1)]
              ELSE [l |-> x + b * s, n |-> i + 1]
         ELSE UvarintFrom(buf, pos, i + 1, x + (b % 128) * s, s * 128)

Uvarint(buf, pos) == UvarintFrom(buf, pos, 0, 0, 1)

\* binary.PutUvarint
RECURSIVE PutUvarint(_)
PutUvarint(x) == IF x < 128 THEN <<x>> ELSE <<128 + (x % 128)>> \o PutUvarint(x \div 128)

NoCell == [extension |-> <<>>, apk |-> <<>>, spk |-> <<>>, h |-> <<>>]

Err == [st |-> "err", data |-> <<>>, isNil |-> TRUE, alias |-> "none"]
Panic == [st |-> "panic", data |-> <<>>, isNil |-> TRUE, alias |-> "none"]
Fresh(d) == [st |-> "ok", data |-> d, isNil |-> FALSE, alias |-> "fresh"]
Same(s, name) == [st |-> "ok", data |-> s.data, isNil |-> s.isNil, alias |-> name]

(***************************************************************************)
(* BranchMerger.Merge                                                      *)
(***************************************************************************)
\* the field loop over branch2 (always copied)
RECURSIVE MergeFields2(_, _, _, _)
MergeFields2(b2, pos2, cnt, buf) ==
    IF cnt = 0 THEN [st |-> "ok", pos |-> pos2, buf |-> buf]
    ELSE LET u == Uvarint(b2, pos2) IN
         IF u.n = 0 THEN [st |-> "err", pos |-> pos2, buf |-> buf]
         ELSE IF u.n < 0 THEN [st |-> "err", pos |-> pos2, buf |-> buf]
         ELSE LET buf1 == buf \o Slice(b2, pos2, pos2 + u.n)
                  p == pos2 + u.n
              IN IF Len(b2) < p + u.l THEN [st |-> "err", pos |-> p, buf |-> buf1]
                 ELSE IF u.l > 0
                      THEN MergeFields2(b2, p + u.l, cnt - 1, buf1 \o Slice(b2, p, p + u.l))
                      ELSE MergeFields2(b2, p, cnt - 1, buf1)

\* mutant: the payload bytes of branch1 are written even when add is false
RECURSIVE MergeFields1_PayloadAlways(_, _, _, _, _)
MergeFields1_PayloadAlways(b1, pos1, cnt, buf, add) ==
    IF cnt = 0 THEN [st |-> "ok", pos |-> pos1, buf |-> buf]
    ELSE LET u == Uvarint(b1, pos1) IN
         IF u.n = 0 THEN [st |-> "err", pos |-> pos1, buf |-> buf]
         ELSE IF u.n < 0 THEN [st |-> "err", pos |-> pos1, buf |-> buf]
         ELSE LET buf1 == IF add THEN buf \o Slice(b1, pos1, pos1 + u.n) ELSE buf
                  p == pos1 + u.n
              IN IF Len(b1) < p + u.l THEN [st |-> "err", pos |-> p, buf |-> buf1]
                 ELSE IF u.l > 0
                      THEN MergeFields1_PayloadAlways(b1, p + u.l, cnt - 1,
                                                      buf1 \o Slice(b1, p, p + u.l), add)
                      ELSE MergeFields1_PayloadAlways(b1, p, cnt - 1, buf1, add)

\* the field loop over branch1 (copied only when add)
RECURSIVE MergeFields1(_, _, _, _, _)
MergeFields1(b1, pos1, cnt, buf, add) ==
    IF cnt = 0 THEN [st |-> "ok", pos |-> pos1, buf |-> buf]
    ELSE LET u == Uvarint(b1, pos1) IN
         IF u.n = 0 THEN [st |-> "err", pos |-> pos1, buf |-> buf]
         ELSE IF u.n < 0 THEN [st |-> "err", pos |-> pos1, buf |-> buf]
         ELSE LET buf1 == IF add THEN buf \o Slice(b1, pos1, pos1 + u.n) ELSE buf
                  p == pos1 + u.n
              IN IF Len(b1) < p + u.l THEN [st |-> "err", pos |-> p, buf |-> buf1]
                 ELSE IF u.l > 0
                      THEN MergeFields1(b1, p + u.l, cnt - 1,
                                        IF add THEN buf1 \o Slice(b1, p, p + u.l) ELSE buf1, add)
                      ELSE MergeFields1(b1, p, cnt - 1, buf1, add)

\* mutant: the touchMap2 test is lost, a block of branch1 is kept under a block of branch2
MergeAdd_IgnoreTouch(touchMap2, afterMap2, nibble) == HasBit(afterMap2, nibble)

\* add := (touchMap2&bit == 0) && (afterMap2&bit != 0)
MergeAdd(touchMap2, afterMap2, nibble) ==
    ~HasBit(touchMap2, nibble) /\ HasBit(afterMap2, nibble)

\* mutant: the fieldBits byte of a block of branch2 is not written
MergeStep2_NoFieldBits(b2, bitmap2, nibble, pos2, buf) ==
    IF HasBit(bitmap2, nibble)
    THEN IF pos2 >= Len(b2) THEN [st |-> "panic", pos |-> pos2, buf |-> buf]
         ELSE MergeFields2(b2, pos2 + 1, OnesCount8(b2[pos2 + 1]), buf)
    ELSE [st |-> "ok", pos |-> pos2, buf |-> buf]

\* part of one loop iteration: the block of branch2 for the lowest bit
MergeStep2(b2, bitmap2, nibble, pos2, buf) ==
    IF HasBit(bitmap2, nibble)
    THEN IF pos2 >= Len(b2) THEN [st |-> "panic", pos |-> pos2, buf |-> buf]
         ELSE MergeFields2(b2, pos2 + 1, OnesCount8(b2[pos2 + 1]), buf \o <<b2[pos2 + 1]>>)
    ELSE [st |-> "ok", pos |-> pos2, buf |-> buf]

\* mutant: the fieldBits byte of branch1 is written even when the block is dropped
MergeStep1_FieldBitsAlways(b1, bitmap1, touchMap2, afterMap2, nibble, pos1, buf) ==
    IF HasBit(bitmap1, nibble)
    THEN IF pos1 >= Len(b1) THEN [st |-> "panic", pos |-> pos1, buf |-> buf]
         ELSE MergeFields1(b1, pos1 + 1, OnesCount8(b1[pos1 + 1]),
                           buf \o <<b1[pos1 + 1]>>, MergeAdd(touchMap2, afterMap2, nibble))
    ELSE [st |-> "ok", pos |-> pos1, buf |-> buf]

\* part of one loop iteration: the block of branch1 for the lowest bit
MergeStep1(b1, bitmap1, touchMap2, afterMap2, nibble, pos1, buf) ==
    IF HasBit(bitmap1, nibble)
    THEN IF pos1 >= Len(b1) THEN [st |-> "panic", pos |-> pos1, buf |-> buf]
         ELSE LET add == MergeAdd(touchMap2, afterMap2, nibble) IN
              MergeFields1(b1, pos1 + 1, OnesCount8(b1[pos1 + 1]),
                           IF add THEN buf \o <<b1[pos1 + 1]>> ELSE buf, add)
    ELSE [st |-> "ok", pos |-> pos1, buf |-> buf]

\* for bitset := bitmap1|bitmap2; bitset != 0; { ...; bitset ^= bit }
RECURSIVE MergeLoop(_, _, _, _, _, _, _, _, _, _)
MergeLoop(b1, b2, bitmap1, bitmap2, touchMap2, afterMap2, bitset, pos1, pos2, buf) ==
    IF bitset = 0 THEN [st |-> "ok", buf |-> buf]
    ELSE LET nibble == TrailingZeros16(bitset)
             s2 == MergeStep2(b2, bitmap2, nibble, pos2, buf)
         IN IF s2.st # "ok" THEN [st |-> s2.st, buf |-> s2.buf]
            ELSE LET s1 == MergeStep1(b1, bitmap1, touchMap2, afterMap2, nibble, pos1, s2.buf)
                 IN IF s1.st # "ok" THEN [st |-> s1.st, buf |-> s1.buf]
                    ELSE MergeLoop(b1, b2, bitmap1, bitmap2, touchMap2, afterMap2,
                                   bitset - 2 ^ nibble, s1.pos, s2.pos, s1.buf)

\* mutant: the after maps are united like the touch maps
MergeHeader_OrAfterMaps(touchMap1, afterMap1, touchMap2, afterMap2) ==
    PutUint16(Or(touchMap1, touchMap2)) \o PutUint16(Or(afterMap1, afterMap2))

\* the 4-byte header of the merged branch
MergeHeader(touchMap1, afterMap1, touchMap2, afterMap2) ==
    PutUint16(Or(touchMap1, touchMap2)) \o PutUint16(afterMap2)

Merge(s1, s2) ==
    IF Len(s2.data) = 0 THEN Same(s1, "branch1")
    ELSE IF Len(s1.data) = 0 THEN Same(s2, "branch2")
    ELSE IF Len(s1.data) < 4 \/ Len(s2.data) < 4 THEN Panic
    ELSE LET touchMap1 == Uint16(s1.data, 0)
             afterMap1 == Uint16(s1.data, 2)
             bitmap1 == And(touchMap1, afterMap1)
             touchMap2 == Uint16(s2.data, 0)
             afterMap2 == Uint16(s2.data, 2)
             bitmap2 == And(touchMap2, afterMap2)
             r == MergeLoop(s1.data, s2.data, bitmap1, bitmap2, touchMap2, afterMap2,
                            Or(bitmap1, bitmap2), 4, 4,
                            MergeHeader(touchMap1, afterMap1, touchMap2, afterMap2))
         IN IF r.st = "ok" THEN Fresh(r.buf)
            ELSE IF r.st = "err" THEN Err
            ELSE Panic

\* m.buf after m.Merge(s1, s2): untouched on the early returns and when the
\* header reads panic, else reset and written up to the return
MergeScratch(s1, s2, scratch) ==
    IF Len(s2.data) = 0 \/ Len(s1.data) = 0 THEN scratch
    ELSE IF Len(s1.data) < 4 \/ Len(s2.data) < 4 THEN scratch
    ELSE MergeLoop(s1.data, s2.data,
                   And(Uint16(s1.data, 0), Uint16(s1.data, 2)),
                   And(Uint16(s2.data, 0), Uint16(s2.data, 2)),
                   Uint16(s2.data, 0), Uint16(s2.data, 2),
                   Or(And(Uint16(s1.data, 0), Uint16(s1.data, 2)),
                      And(Uint16(s2.data, 0), Uint16(s2.data, 2))), 4, 4,
                   MergeHeader(Uint16(s1.data, 0), Uint16(s1.data, 2),
                               Uint16(s2.data, 0), Uint16(s2.data, 2))).buf

(***************************************************************************)
(* BranchData.MergeHexBranches                                             *)
(***************************************************************************)
\* the field loop over branchData2 (always appended to newData)
RECURSIVE HexFields2(_, _, _, _)
HexFields2(b2, pos2, cnt, nd) ==
    IF cnt = 0 THEN [st |-> "ok", pos |-> pos2, buf |-> nd]
    ELSE LET u == Uvarint(b2, pos2) IN
         IF u.n = 0 THEN [st |-> "err", pos |-> pos2, buf |-> nd]
         ELSE IF u.n < 0 THEN [st |-> "err", pos |-> pos2, buf |-> nd]
         ELSE LET nd1 == nd \o Slice(b2, pos2, pos2 + u.n)
                  p == pos2 + u.n
              IN IF Len(b2) < p + u.l THEN [st |-> "err", pos |-> p, buf |-> nd1]
                 ELSE IF u.l > 0
                      THEN HexFields2(b2, p + u.l, cnt - 1, nd1 \o Slice(b2, p, p + u.l))
                      ELSE HexFields2(b2, p, cnt - 1, nd1)

\* the field loop over branchData (appended only when add)
RECURSIVE HexFields1(_, _, _, _, _)
HexFields1(b1, pos1, cnt, nd, add) ==
    IF cnt = 0 THEN [st |-> "ok", pos |-> pos1, buf |-> nd]
    ELSE LET u == Uvarint(b1, pos1) IN
         IF u.n = 0 THEN [st |-> "err", pos |-> pos1, buf |-> nd]
         ELSE IF u.n < 0 THEN [st |-> "err", pos |-> pos1, buf |-> nd]
         ELSE LET nd1 == IF add THEN nd \o Slice(b1, pos1, pos1 + u.n) ELSE nd
                  p == pos1 + u.n
              IN IF Len(b1) < p + u.l THEN [st |-> "err", pos |-> p, buf |-> nd1]
                 ELSE IF u.l > 0
                      THEN HexFields1(b1, p + u.l, cnt - 1,
                                      IF add THEN nd1 \o Slice(b1, p, p + u.l) ELSE nd1, add)
                      ELSE HexFields1(b1, p, cnt - 1, nd1, add)

\* mutant: the touchMap2 test is lost
HexAdd_IgnoreTouch(touchMap2, afterMap2, nibble) == HasBit(afterMap2, nibble)

\* add := (touchMap2&bit == 0) && (afterMap2&bit != 0)
HexAdd(touchMap2, afterMap2, nibble) ==
    ~HasBit(touchMap2, nibble) /\ HasBit(afterMap2, nibble)

RECURSIVE HexLoop(_, _, _, _, _, _, _, _, _, _)
HexLoop(b1, b2, bitmap1, bitmap2, touchMap2, afterMap2, bitset, pos1, pos2, nd) ==
    IF bitset = 0 THEN [st |-> "ok", buf |-> nd]
    ELSE LET nibble == TrailingZeros16(bitset)
             s2 == IF HasBit(bitmap2, nibble)
                   THEN IF pos2 >= Len(b2) THEN [st |-> "panic", pos |-> pos2, buf |-> nd]
                        ELSE HexFields2(b2, pos2 + 1, OnesCount8(b2[pos2 + 1]),
                                        nd \o <<b2[pos2 + 1]>>)
                   ELSE [st |-> "ok", pos |-> pos2, buf |-> nd]
         IN IF s2.st # "ok" THEN [st |-> s2.st, buf |-> s2.buf]
            ELSE LET add == HexAdd(touchMap2, afterMap2, nibble)
                     s1 == IF HasBit(bitmap1, nibble)
                           THEN IF pos1 >= Len(b1)
                                THEN [st |-> "panic", pos |-> pos1, buf |-> s2.buf]
                                ELSE HexFields1(b1, pos1 + 1, OnesCount8(b1[pos1 + 1]),
                                                IF add THEN s2.buf \o <<b1[pos1 + 1]>>
                                                       ELSE s2.buf, add)
                           ELSE [st |-> "ok", pos |-> pos1, buf |-> s2.buf]
                 IN IF s1.st # "ok" THEN [st |-> s1.st, buf |-> s1.buf]
                    ELSE HexLoop(b1, b2, bitmap1, bitmap2, touchMap2, afterMap2,
                                 bitset - 2 ^ nibble, s1.pos, s2.pos, s1.buf)

\* branchData.MergeHexBranches(branchData2, newData)
MergeHexBranches(s1, s2, nd) ==
    IF s2.isNil THEN Same(s1, "branch1")
    ELSE IF s1.isNil THEN Same(s2, "branch2")
    ELSE IF Len(s1.data) < 4 \/ Len(s2.data) < 4 THEN Panic
    ELSE LET touchMap1 == Uint16(s1.data, 0)
             afterMap1 == Uint16(s1.data, 2)
             bitmap1 == And(touchMap1, afterMap1)
             touchMap2 == Uint16(s2.data, 0)
             afterMap2 == Uint16(s2.data, 2)
             bitmap2 == And(touchMap2, afterMap2)
             r == HexLoop(s1.data, s2.data, bitmap1, bitmap2, touchMap2, afterMap2,
                          Or(bitmap1, bitmap2), 4, 4,
                          nd.data \o PutUint16(Or(touchMap1, touchMap2)) \o PutUint16(afterMap2))
         IN IF r.st = "ok" THEN [st |-> "ok", data |-> r.buf, isNil |-> FALSE, alias |-> "newData"]
            ELSE IF r.st = "err" THEN Err
            ELSE Panic

(***************************************************************************)
(* BranchEncoder.EncodeBranch                                              *)
(*                                                                         *)
(* A Cell is the record of its four fields, each the sequence             *)
(* array[:length] (extension[:extLen], apk[:apl], spk[:spl], h[:hl]).      *)
(* row[nibble] is what the readCell callback returns for that nibble:      *)
(* [err, cell].                                                            *)
(***************************************************************************)
\* putUvarAndVal(uint64(len(val)), val)
putUvarAndVal(val) == PutUvarint(Len(val)) \o val

\* fieldBits of a cell
CellFieldBits(cell) ==
      (IF Len(cell.extension) > 0 /\ Len(cell.spk) = 0 THEN HashedKeyPart ELSE 0)
    + (IF Len(cell.apk) > 0 THEN AccountPlainPart ELSE 0)
    + (IF Len(cell.spk) > 0 THEN StoragePlainPart ELSE 0)
    + (IF Len(cell.h) > 0 THEN HashPart ELSE 0)

\* the bytes written for one cell whose bitmap bit is set
EncodeCellBlock(cell) ==
    LET fieldBits == CellFieldBits(cell) IN
       <<fieldBits>>
    \o (IF HasBit(fieldBits, 0) THEN putUvarAndVal(cell.extension) ELSE <<>>)
    \o (IF HasBit(fieldBits, 1) THEN putUvarAndVal(cell.apk) ELSE <<>>)
    \o (IF HasBit(fieldBits, 2) THEN putUvarAndVal(cell.spk) ELSE <<>>)
    \o (IF HasBit(fieldBits, 3) THEN putUvarAndVal(cell.h) ELSE <<>>)

\* mutant: the nibbles between two afterMap bits are not read
SkipCells_None(rw, i, nibble, log) == [st |-> "ok", calls |-> log]

\* for i := lastNibble; i < nibble; i++ { readCell(i, true) }
RECURSIVE SkipCells(_, _, _, _)
SkipCells(rw, i, nibble, log) ==
    IF i >= nibble THEN [st |-> "ok", calls |-> log]
    ELSE LET log1 == Append(log, [nibble |-> i, skip |-> TRUE]) IN
         IF rw[i].err THEN [st |-> "err", calls |-> log1]
         ELSE SkipCells(rw, i + 1, nibble, log1)

\* for bitset := afterMap; bitset != 0; { ...; bitset ^= bit }
RECURSIVE EncodeLoop(_, _, _, _, _, _)
EncodeLoop(rw, bm, bitset, lastNibble, buf, log) ==
    IF bitset = 0
    THEN [st |-> "ok", data |-> buf, lastNibble |-> lastNibble, calls |-> log]
    ELSE LET nibble == TrailingZeros16(bitset)
             sk == SkipCells(rw, lastNibble, nibble, log)
         IN IF sk.st # "ok"
            THEN [st |-> "err", data |-> <<>>, lastNibble |-> 0, calls |-> sk.calls]
            ELSE LET log1 == Append(sk.calls, [nibble |-> nibble, skip |-> FALSE]) IN
                 IF rw[nibble].err
                 THEN [st |-> "err", data |-> <<>>, lastNibble |-> 0, calls |-> log1]
                 ELSE EncodeLoop(rw, bm, bitset - 2 ^ nibble, nibble + 1,
                                 IF HasBit(bm, nibble)
                                 THEN buf \o EncodeCellBlock(rw[nibble].cell)
                                 ELSE buf,
                                 log1)

\* mutant: a block is written for every afterMap bit, whatever bitmap says
EncodeBranch_IgnoreBitmap(bm, tm, am, rw) ==
    EncodeLoop(rw, am, am, 0, PutUint16(tm) \o PutUint16(am), <<>>)

EncodeBranch(bm, tm, am, rw) ==
    EncodeLoop(rw, bm, am, 0, PutUint16(tm) \o PutUint16(am), <<>>)

(***************************************************************************)
(* Cell.fillFromFields and BranchData.DecodeCells                          *)
(***************************************************************************)
\* field maxima: extension, account key, storage key, hash
MaxExtLen == 64
MaxAccountLen == 32
MaxStorageLen == 52
MaxHashLen == 32

\* one length-prefixed field, read when its fieldBits bit is set
ReadField(buf, pos, present, maxLen) ==
    IF ~present THEN [st |-> "ok", pos |-> pos, val |-> <<>>]
    ELSE LET u == Uvarint(buf, pos) IN
         IF u.n = 0 THEN [st |-> "err", pos |-> pos, val |-> <<>>]
         ELSE IF u.n < 0 THEN [st |-> "err", pos |-> pos, val |-> <<>>]
         ELSE IF Len(buf) < pos + u.n + u.l THEN [st |-> "err", pos |-> pos, val |-> <<>>]
         ELSE IF u.l > maxLen THEN [st |-> "err", pos |-> pos, val |-> <<>>]
         ELSE [st |-> "ok", pos |-> pos + u.n + u.l,
               val |-> Slice(buf, pos + u.n, pos + u.n + u.l)]

fillFromFields(buf, pos, fieldBits) ==
    LET e == ReadField(buf, pos, HasBit(fieldBits, 0), MaxExtLen)
        a == ReadField(buf, e.pos, HasBit(fieldBits, 1), MaxAccountLen)
        s == ReadField(buf, a.pos, HasBit(fieldBits, 2), MaxStorageLen)
        h == ReadField(buf, s.pos, HasBit(fieldBits, 3), MaxHashLen)
    IN IF e.st # "ok" \/ a.st # "ok" \/ s.st # "ok" \/ h.st # "ok"
       THEN [st |-> "err", pos |-> 0, cell |-> NoCell]
       ELSE [st |-> "ok", pos |-> h.pos,
             cell |-> [extension |-> e.val, apk |-> a.val, spk |-> s.val, h |-> h.val]]

\* a *Cell of the decoded row: nil, or a cell
NullCell == [isNil |-> TRUE, cell |-> NoCell]
NoRow == [i \in AllNibbles |-> NullCell]

\* for bitset := touchMap; bitset != 0; { ...; bitset ^= bit }
RECURSIVE DecodeLoop(_, _, _, _, _)
DecodeLoop(b, am, bitset, pos, rw) ==
    IF bitset = 0 THEN [st |-> "ok", row |-> rw]
    ELSE LET nibble == TrailingZeros16(bitset) IN
         IF HasBit(am, nibble)
         THEN IF pos >= Len(b) THEN [st |-> "panic", row |-> rw]
              ELSE LET f == fillFromFields(b, pos + 1, b[pos + 1]) IN
                   IF f.st # "ok"
                   THEN [st |-> "err",
                         row |-> [rw EXCEPT ![nibble] = [isNil |-> FALSE, cell |-> NoCell]]]
                   ELSE DecodeLoop(b, am, bitset - 2 ^ nibble, f.pos,
                                   [rw EXCEPT ![nibble] = [isNil |-> FALSE, cell |-> f.cell]])
         ELSE DecodeLoop(b, am, bitset - 2 ^ nibble, pos, rw)

DecodeCells(s) ==
    IF Len(s.data) < 4 THEN [st |-> "panic", touchMap |-> 0, afterMap |-> 0, row |-> NoRow]
    ELSE LET tm == Uint16(s.data, 0)
             am == Uint16(s.data, 2)
             r == DecodeLoop(s.data, am, tm, 4, NoRow)
         IN [st |-> r.st, touchMap |-> tm, afterMap |-> am, row |-> r.row]

(***************************************************************************)
(* BranchData.ReplacePlainKeys                                             *)
(*                                                                         *)
(* The receiver is a slice [isNil, data, spare]: spare are the bytes of    *)
(* its backing array between len and cap.  The key handed to fn is the     *)
(* subslice branchData[pos-l:pos], here [data, room]: room are the bytes   *)
(* behind the key up to the capacity, which a reslice key[:n] can reach.   *)
(*                                                                         *)
(* The substitution function fn is one of four closures.  "shorten"        *)
(* returns key[:8] for a storage key and key[:4] for an account key,       *)
(* "keep" returns nil for every key, "fail" returns an error, and          *)
(* "restore" requires oldKeys[keyI][:4] to equal key[:4] and returns       *)
(* oldKeys[keyI] at its keyI-th call, oldKeys being the keys an earlier    *)
(* pass was called with.  A closure that does not return gives stop:       *)
(* "panic" for a run-time panic, "failnow" for a failed requirement.       *)
(***************************************************************************)
\* return key[:8]
StorageShort == 8
\* return key[:4]
AccountShort == 4
\* oldKeys[keyI][:4], key[:4]
RequiredPrefix == 4

WithSpare(s, spare) == [isNil |-> s.isNil, data |-> s.data, spare |-> spare]

\* branchData[lo:hi] of the slice with bytes b and spare capacity spare
KeySlice(b, spare, lo, hi) == [data |-> Slice(b, lo, hi), room |-> Slice(b, hi, Len(b)) \o spare]

\* key[:n]: the first n bytes from the start of key, a panic beyond its capacity
Reslice(key, n) ==
    IF n > Len(key.data) + Len(key.room) THEN [panic |-> TRUE, data |-> <<>>]
    ELSE [panic |-> FALSE, data |-> SubSeq(key.data \o key.room, 1, n)]

FnKeep == [kind |-> "keep", oldKeys |-> <<>>]
FnShorten == [kind |-> "shorten", oldKeys |-> <<>>]
FnFail == [kind |-> "fail", oldKeys |-> <<>>]
FnRestore(oldKeys) == [kind |-> "restore", oldKeys |-> oldKeys]

FnModes == {FnKeep, FnShorten, FnFail}

FnReturn(newKey) == [err |-> FALSE, isNil |-> FALSE, key |-> newKey, stop |-> "none"]
FnNil == [err |-> FALSE, isNil |-> TRUE, key |-> <<>>, stop |-> "none"]
FnErr == [err |-> TRUE, isNil |-> TRUE, key |-> <<>>, stop |-> "none"]
FnStop(how) == [err |-> FALSE, isNil |-> TRUE, key |-> <<>>, stop |-> how]

\* if isStorage { return key[:8], nil }; return key[:4], nil
FnShortenCall(key, isStorage) ==
    IF Reslice(key, IF isStorage THEN StorageShort ELSE AccountShort).panic THEN FnStop("panic")
    ELSE FnReturn(Reslice(key, IF isStorage THEN StorageShort ELSE AccountShort).data)

\* require.EqualValues(t, oldKeys[keyI][:4], key[:4]); return oldKeys[keyI], nil
FnRestoreCall(oldKeys, key, keyI) ==
    IF keyI >= Len(oldKeys) THEN FnStop("panic")
    ELSE IF Reslice(oldKeys[keyI + 1], RequiredPrefix).panic THEN FnStop("panic")
    ELSE IF Reslice(key, RequiredPrefix).panic THEN FnStop("panic")
    ELSE IF Reslice(oldKeys[keyI + 1], RequiredPrefix).data # Reslice(key, RequiredPrefix).data
    THEN FnStop("failnow")
    ELSE FnReturn(oldKeys[keyI + 1].data)

fn(mode, key, isStorage, keyI) ==
    IF mode.kind = "fail" THEN FnErr
    ELSE IF mode.kind = "keep" THEN FnNil
    ELSE IF mode.kind = "shorten" THEN FnShortenCall(key, isStorage)
    ELSE FnRestoreCall(mode.oldKeys, key, keyI)

\* a HashedKeyPart or HashPart field: copied with its length prefix
ReplaceCopyField(b, pos, nd, present) ==
    IF ~present THEN [st |-> "ok", pos |-> pos, nd |-> nd]
    ELSE LET u == Uvarint(b, pos) IN
         IF u.n = 0 THEN [st |-> "err", pos |-> pos, nd |-> nd]
         ELSE IF u.n < 0 THEN [st |-> "err", pos |-> pos, nd |-> nd]
         ELSE LET nd1 == nd \o Slice(b, pos, pos + u.n)
                  p == pos + u.n
              IN IF Len(b) < p + u.l THEN [st |-> "err", pos |-> p, nd |-> nd1]
                 ELSE IF u.l > 0
                      THEN [st |-> "ok", pos |-> p + u.l, nd |-> nd1 \o Slice(b, p, p + u.l)]
                      ELSE [st |-> "ok", pos |-> p, nd |-> nd1]

\* mutant: a fresh length prefix is written even when fn returns nil
ReplaceWriteKey_FreshLength(nd, orig, newKey) ==
    IF newKey.isNil
    THEN nd \o PutUvarint(Uvarint(orig, 0).l) \o Slice(orig, Uvarint(orig, 0).n, Len(orig))
    ELSE nd \o PutUvarint(Len(newKey.key)) \o newKey.key

\* mutant: the original key is copied whatever fn returns
ReplaceWriteKey_AlwaysCopy(nd, orig, newKey) == nd \o orig

\* mutant: the new key is written after the length prefix of the original key
ReplaceWriteKey_StaleLength(nd, orig, newKey) ==
    IF newKey.isNil THEN nd \o orig
    ELSE nd \o Slice(orig, 0, Uvarint(orig, 0).n) \o newKey.key

\* what is appended for a plain key: the original field (length prefix and key,
\* orig) when fn returned nil, else a fresh length prefix and the new key
ReplaceWriteKey(nd, orig, newKey) ==
    IF newKey.isNil THEN nd \o orig
    ELSE nd \o PutUvarint(Len(newKey.key)) \o newKey.key

\* the calls of fn so far with one more: the key it was given and isStorage
KeyCalled(keys, key, isStorage) == Append(keys, [key |-> key, isStorage |-> isStorage])

\* an AccountPlainPart or StoragePlainPart field: passed through fn; a closure
\* that does not return ends the call with st "fn panic" or "fn failnow"
ReplaceKeyField(b, spare, pos, nd, present, mode, isStorage, keys) ==
    IF ~present THEN [st |-> "ok", pos |-> pos, nd |-> nd, keys |-> keys]
    ELSE LET u == Uvarint(b, pos) IN
         IF u.n = 0 THEN [st |-> "err", pos |-> pos, nd |-> nd, keys |-> keys]
         ELSE IF u.n < 0 THEN [st |-> "err", pos |-> pos, nd |-> nd, keys |-> keys]
         ELSE IF Len(b) < pos + u.n + u.l
         THEN [st |-> "err", pos |-> pos + u.n, nd |-> nd, keys |-> keys]
         ELSE LET p == pos + u.n + u.l
                  key == KeySlice(b, spare, p - u.l, p)
                  newKey == fn(mode, key, isStorage, Len(keys))
                  keys1 == KeyCalled(keys, key, isStorage)
              IN IF newKey.stop # "none"
                 THEN [st |-> "fn " \o newKey.stop, pos |-> p, nd |-> nd, keys |-> keys1]
                 ELSE IF newKey.err THEN [st |-> "err", pos |-> p, nd |-> nd, keys |-> keys1]
                 ELSE [st |-> "ok", pos |-> p, keys |-> keys1,
                       nd |-> ReplaceWriteKey(nd, Slice(b, p - u.l - u.n, p), newKey)]

\* for bitset := touchMap&afterMap; bitset != 0; { ...; bitset ^= bit }
RECURSIVE ReplaceLoop(_, _, _, _, _, _, _)
ReplaceLoop(b, spare, bitset, pos, nd, mode, keys) ==
    IF bitset = 0 THEN [st |-> "ok", nd |-> nd, keys |-> keys]
    ELSE IF pos >= Len(b) THEN [st |-> "panic", nd |-> nd, keys |-> keys]
    ELSE LET fieldBits == b[pos + 1]
             e == ReplaceCopyField(b, pos + 1, nd \o <<fieldBits>>, HasBit(fieldBits, 0))
         IN IF e.st # "ok" THEN [st |-> e.st, nd |-> e.nd, keys |-> keys]
       ELSE LET a == ReplaceKeyField(b, spare, e.pos, e.nd, HasBit(fieldBits, 1), mode, FALSE, keys)
         IN IF a.st # "ok" THEN [st |-> a.st, nd |-> a.nd, keys |-> a.keys]
       ELSE LET k == ReplaceKeyField(b, spare, a.pos, a.nd, HasBit(fieldBits, 2), mode, TRUE, a.keys)
         IN IF k.st # "ok" THEN [st |-> k.st, nd |-> k.nd, keys |-> k.keys]
       ELSE LET h == ReplaceCopyField(b, k.pos, k.nd, HasBit(fieldBits, 3))
         IN IF h.st # "ok" THEN [st |-> h.st, nd |-> h.nd, keys |-> k.keys]
            ELSE ReplaceLoop(b, spare, bitset - 2 ^ TrailingZeros16(bitset), h.pos, h.nd, mode,
                             k.keys)

\* what ReplacePlainKeys returns after its loop r: newData, or nil and an error
ReplaceReturn(r) ==
    [st |-> r.st,
     data |-> IF r.st = "ok" THEN r.nd ELSE <<>>,
     isNil |-> r.st # "ok",
     alias |-> IF r.st = "ok" THEN "newData" ELSE "none",
     keys |-> r.keys]

\* return branchData, nil
ReplaceUnchanged(s) ==
    [st |-> "ok", data |-> s.data, isNil |-> s.isNil, alias |-> "branch1", keys |-> <<>>]

\* branchData.ReplacePlainKeys(newData, fn); keys: the calls fn received
ReplacePlainKeys(s, nd, mode) ==
    IF Len(s.data) < 4 THEN ReplaceUnchanged(s)
    ELSE IF And(Uint16(s.data, 0), Uint16(s.data, 2)) = 0 THEN ReplaceUnchanged(s)
    ELSE ReplaceReturn(ReplaceLoop(s.data, s.spare, And(Uint16(s.data, 0), Uint16(s.data, 2)),
                                   4, Slice(s.data, 0, 4), mode, <<>>))

(***************************************************************************)
(* The wire format of a branch (BranchData): the layout of its payload     *)
(* blocks, one per bit of touchMap & afterMap, in ascending nibble order.  *)
(***************************************************************************)
\* position after cnt length-prefixed fields starting at pos, -1 if they do not fit
RECURSIVE SkipFields(_, _, _)
SkipFields(b, pos, cnt) ==
    IF cnt = 0 THEN pos
    ELSE LET u == Uvarint(b, pos) IN
         IF u.n <= 0 \/ Len(b) < pos + u.n + u.l THEN -1
         ELSE SkipFields(b, pos + u.n + u.l, cnt - 1)

\* end of the payload block starting at pos (its fieldBits byte uses the four
\* PartFlags bits only), -1 if there is no whole block there
BlockEnd(b, pos) ==
    IF pos >= Len(b) \/ b[pos + 1] >= 16 THEN -1
    ELSE SkipFields(b, pos + 1, OnesCount8(b[pos + 1]))

NoBlocks == [i \in AllNibbles |-> <<>>]

RECURSIVE BlocksFrom(_, _, _, _)
BlocksFrom(b, bitset, pos, acc) ==
    IF bitset = 0 THEN [ok |-> pos = Len(b), blk |-> acc]
    ELSE LET i == TrailingZeros16(bitset)
             e == BlockEnd(b, pos)
         IN IF e < 0 THEN [ok |-> FALSE, blk |-> acc]
            ELSE BlocksFrom(b, bitset - 2 ^ i, e, [acc EXCEPT ![i] = Slice(b, pos, e)])

\* touchMap, afterMap and the block of every nibble (<<>> where there is none);
\* ok iff the bytes are exactly a header and one block per bit of touchMap & afterMap
Layout(b) ==
    IF Len(b) < 4 THEN [ok |-> FALSE, tm |-> 0, am |-> 0, blk |-> NoBlocks]
    ELSE LET tm == Uint16(b, 0)
             am == Uint16(b, 2)
             r == BlocksFrom(b, And(tm, am), 4, NoBlocks)
         IN [ok |-> r.ok, tm |-> tm, am |-> am, blk |-> r.blk]

WellFormed(b) == Layout(b).ok

\* a branch, given by its layout, read as an update of a 16-slot child table
ApplyLayout(table, L) ==
    [i \in AllNibbles |->
        IF HasBit(L.tm, i) THEN (IF HasBit(L.am, i) THEN L.blk[i] ELSE <<>>)
        ELSE table[i]]

Apply(table, b) == ApplyLayout(table, Layout(b))

(***************************************************************************)
(* Inputs of the well-formed regime                                        *)
(***************************************************************************)
\* a hash of 33 bytes, one more than a cell holds
LongHash == [k \in 1..33 |-> 100 + k]

\* payload blocks: no field; an account key; an extension whose length 1 is
\* written in two varint bytes, with an empty hash; a hash of 33 bytes
BlockPool == {<<0>>, <<2, 1, 7>>, <<9, 129, 0, 5, 0>>, <<8, 33>> \o LongHash}

RECURSIVE ConcatBlocks(_, _)
ConcatBlocks(bitset, f) ==
    IF bitset = 0 THEN <<>>
    ELSE LET i == TrailingZeros16(bitset) IN f[i] \o ConcatBlocks(bitset - 2 ^ i, f)

MkBranch(tm, am, f) == PutUint16(tm) \o PutUint16(am) \o ConcatBlocks(And(tm, am), f)

UsedMasks == {Mask(S) : S \in SUBSET UsedNibbles}

WFBranches ==
    UNION {UNION {{MkBranch(tm, am, f) : f \in [BitsOf(And(tm, am)) -> BlockPool]}
                  : am \in UsedMasks} : tm \in UsedMasks}

\* destinations handed to MergeHexBranches
Dsts == {NilSlice, Bytes(<<170>>)}

NoOut == [st |-> "none", data |-> <<>>, isNil |-> TRUE, alias |-> "none"]

EncoderIdle ==
    /\ row = <<>>
    /\ bitmap = 0 /\ touchMap = 0 /\ afterMap = 0
    /\ calls = <<>>

(***************************************************************************)
(* BranchStat, BranchStat.Collect and DecodeBranchAndCollectStat           *)
(***************************************************************************)
\* &BranchStat{}
ZeroStat ==
    [KeySize |-> 0, ValSize |-> 0, MinCellSize |-> 0, MaxCellSize |-> 0, CellCount |-> 0,
     APKSize |-> 0, SPKSize |-> 0, ExtSize |-> 0, HashSize |-> 0,
     APKCount |-> 0, SPKCount |-> 0, HashCount |-> 0, ExtCount |-> 0,
     TAMapsSize |-> 0, IsRoot |-> FALSE]

\* a *BranchStat: nil, or a stat
NilStat == [isNil |-> TRUE, stat |-> ZeroStat]

Min(a, b) == IF a < b THEN a ELSE b
Max(a, b) == IF a > b THEN a ELSE b

\* bs.Collect(other)
Collect(bs, other) ==
    IF other.isNil THEN bs
    ELSE [bs EXCEPT
            !.KeySize = @ + other.stat.KeySize,
            !.ValSize = @ + other.stat.ValSize,
            !.MinCellSize = Min(@, other.stat.MinCellSize),
            !.MaxCellSize = Max(@, other.stat.MaxCellSize),
            !.CellCount = @ + other.stat.CellCount,
            !.APKSize = @ + other.stat.APKSize,
            !.SPKSize = @ + other.stat.SPKSize,
            !.ExtSize = @ + other.stat.ExtSize,
            !.HashSize = @ + other.stat.HashSize,
            !.APKCount = @ + other.stat.APKCount,
            !.SPKCount = @ + other.stat.SPKCount,
            !.HashCount = @ + other.stat.HashCount,
            !.ExtCount = @ + other.stat.ExtCount]

\* Cell.Encode(): the fieldBits of the fields of non-zero length, then each of
\* them with its length, in the field order of a branch
CellEncode(cell) ==
    <<(IF Len(cell.extension) > 0 THEN HashedKeyPart ELSE 0)
      + (IF Len(cell.apk) > 0 THEN AccountPlainPart ELSE 0)
      + (IF Len(cell.spk) > 0 THEN StoragePlainPart ELSE 0)
      + (IF Len(cell.h) > 0 THEN HashPart ELSE 0)>>
    \o (IF Len(cell.extension) > 0 THEN putUvarAndVal(cell.extension) ELSE <<>>)
    \o (IF Len(cell.apk) > 0 THEN putUvarAndVal(cell.apk) ELSE <<>>)
    \o (IF Len(cell.spk) > 0 THEN putUvarAndVal(cell.spk) ELSE <<>>)
    \o (IF Len(cell.h) > 0 THEN putUvarAndVal(cell.h) ELSE <<>>)

\* the switch over the plain key of a cell: apl, else spl, else hl, else panic
StatKind(c) ==
    IF Len(c.apk) > 0 THEN "apk"
    ELSE IF Len(c.spk) > 0 THEN "spk"
    ELSE IF Len(c.h) > 0 THEN "hash"
    ELSE "panic"

\* one iteration of  for _, c := range cells  for a non-nil cell c
StatCell(stat, c) ==
    [stat EXCEPT
        !.MinCellSize = Min(@, Len(CellEncode(c))),
        !.MaxCellSize = Max(@, Len(CellEncode(c))),
        !.APKSize = IF StatKind(c) = "apk" THEN @ + Len(c.apk) ELSE @,
        !.APKCount = IF StatKind(c) = "apk" THEN @ + 1 ELSE @,
        !.SPKSize = IF StatKind(c) = "spk" THEN @ + Len(c.spk) ELSE @,
        !.SPKCount = IF StatKind(c) = "spk" THEN @ + 1 ELSE @,
        !.HashSize = IF StatKind(c) = "hash" THEN @ + Len(c.h) ELSE @,
        !.HashCount = IF StatKind(c) = "hash" THEN @ + 1 ELSE @,
        !.ExtSize = IF Len(c.extension) > 0 THEN @ + Len(c.extension) ELSE @,
        !.ExtCount = IF Len(c.extension) > 0 THEN @ + 1 ELSE @]

\* for _, c := range cells { ... }, from index i on
RECURSIVE StatLoop(_, _, _)
StatLoop(cells, i, stat) ==
    IF i > 15 THEN [st |-> "ok", isNil |-> FALSE, stat |-> stat]
    ELSE IF cells[i].isNil THEN StatLoop(cells, i + 1, stat)
    ELSE IF StatKind(cells[i].cell) = "panic" THEN [st |-> "panic", isNil |-> TRUE, stat |-> ZeroStat]
    ELSE StatLoop(cells, i + 1, StatCell(stat, cells[i].cell))

\* the key of the root branch
StateKey == <<115, 116, 97, 116, 101>>

\* the stat of a non-root branch after a successful DecodeCells d
StatOfCells(k, branch, d) ==
    StatLoop(d.row, 0,
             [ZeroStat EXCEPT !.KeySize = Len(k), !.ValSize = Len(branch.data),
                              !.TAMapsSize = 2 + 2,
                              !.CellCount = Cardinality(BitsOf(And(d.touchMap, d.afterMap)))])

\* DecodeBranchAndCollectStat(key, branch, tv); both trie variants take the same path
DecodeBranchAndCollectStat(k, branch, tv) ==
    IF Len(k) = 0 THEN [st |-> "ok", isNil |-> TRUE, stat |-> ZeroStat]
    ELSE IF k = StateKey
    THEN [st |-> "ok", isNil |-> FALSE,
          stat |-> [ZeroStat EXCEPT !.KeySize = Len(k), !.ValSize = Len(branch.data),
                                    !.IsRoot = TRUE]]
    ELSE IF DecodeCells(branch).st = "panic" THEN [st |-> "panic", isNil |-> TRUE, stat |-> ZeroStat]
    ELSE IF DecodeCells(branch).st = "err" THEN [st |-> "ok", isNil |-> TRUE, stat |-> ZeroStat]
    ELSE StatOfCells(k, branch, DecodeCells(branch))

\* NewHexBranchMerger(capacity): m.buf starts as capacity zero bytes
MergerCapacity == 4
NewHexBranchMerger == [k \in 1..MergerCapacity |-> 0]

\* a new merger, an empty total, a new collector, no pair delivered yet
HelpersIdle ==
    /\ mbuf = NewHexBranchMerger
    /\ results = <<>>
    /\ statKey = <<>>
    /\ total = ZeroStat
    /\ collected = <<>>
    /\ loads = <<>>
    /\ pcCalls = <<>>
    /\ updates = <<>>

OthersIdle ==
    /\ branch3 = NilSlice
    /\ HelpersIdle

(***************************************************************************)
(* Merging well-formed branches                                            *)
(***************************************************************************)
InitMerge ==
    /\ branch1 \in {Bytes(b) : b \in WFBranches}
    /\ branch2 \in {Bytes(b) : b \in WFBranches}
    /\ newData = NilSlice
    /\ EncoderIdle
    /\ op = "init"
    /\ out = NoOut
    /\ OthersIdle

DoMerge ==
    /\ op = "init"
    /\ op' = "Merge"
    /\ out' = Merge(branch1, branch2)
    /\ mbuf' = MergeScratch(branch1, branch2, mbuf)
    /\ UNCHANGED <<branch1, branch2, newData, row, bitmap, touchMap, afterMap, calls>>
    /\ UNCHANGED <<branch3, results, statKey, total, collected, loads, pcCalls, updates>>

DoMergeHexBranches ==
    /\ op = "init"
    /\ \E nd \in Dsts :
          /\ newData' = nd
          /\ out' = MergeHexBranches(branch1, branch2, nd)
    /\ op' = "MergeHexBranches"
    /\ UNCHANGED <<branch1, branch2, row, bitmap, touchMap, afterMap, calls>>
    /\ UNCHANGED others

NextMerge == DoMerge \/ DoMergeHexBranches

SpecMerge == InitMerge /\ [][NextMerge]_vars

(***************************************************************************)
(* Properties of the merge                                                 *)
(***************************************************************************)
IsMergeOp == op \in {"Merge", "MergeHexBranches"}
TM1 == Uint16(branch1.data, 0)
AM1 == Uint16(branch1.data, 2)
TM2 == Uint16(branch2.data, 0)
AM2 == Uint16(branch2.data, 2)
BothWellFormed == WellFormed(branch1.data) /\ WellFormed(branch2.data)

\* the merged branch: the result without the destination's prior content
MergedBytes ==
    IF op = "MergeHexBranches"
    THEN Slice(out.data, Len(newData.data), Len(out.data))
    ELSE out.data

\* child tables: any subset of the used nibbles, or all 16, hold a prior block
PriorBlock == <<8, 1, 99>>
Tables == {[i \in AllNibbles |-> IF i \in S THEN PriorBlock ELSE <<>>]
              : S \in (SUBSET UsedNibbles) \cup {AllNibbles}}

\* afterMap2 agrees with afterMap1 on every child b1 touches and b2 does not
AfterMapsAgree ==
    \A i \in AllNibbles :
        (HasBit(TM1, i) /\ ~HasBit(TM2, i)) => (HasBit(AM1, i) <=> HasBit(AM2, i))

\* a child that b1 deletes, b2 does not touch, and afterMap2 still claims
Orphan(i) == HasBit(TM1, i) /\ ~HasBit(AM1, i) /\ ~HasBit(TM2, i) /\ HasBit(AM2, i)
NoOrphan == \A i \in AllNibbles : ~Orphan(i)

\* C1 as claimed: for every pair of well-formed branches and every child table,
\* applying the merged branch equals applying branch1 and then branch2.
C1_SequentialEveryPair ==
    (IsMergeOp /\ BothWellFormed) =>
        /\ out.st = "ok"
        /\ LET L1 == Layout(branch1.data)
               L2 == Layout(branch2.data)
               Lm == Layout(MergedBytes)
           IN \A t \in Tables : ApplyLayout(t, Lm) = ApplyLayout(ApplyLayout(t, L1), L2)

\* C1 amended: the equivalence with sequential application holds for the pairs
\* whose afterMap2 agrees with afterMap1 on the children that branch1 touches
\* and branch2 does not.
C1_SequentialWhenAgree ==
    (IsMergeOp /\ BothWellFormed /\ AfterMapsAgree) =>
        /\ out.st = "ok"
        /\ LET L1 == Layout(branch1.data)
               L2 == Layout(branch2.data)
               Lm == Layout(MergedBytes)
           IN \A t \in Tables : ApplyLayout(t, Lm) = ApplyLayout(ApplyLayout(t, L1), L2)

\* a merge that keeps a block of branch1 and lets branch2 delete another child of branch1
C1_Witness ==
    /\ op = "Merge" /\ out.st = "ok" /\ BothWellFormed /\ AfterMapsAgree
    /\ \E i \in AllNibbles : HasBit(And(TM1, AM1), i) /\ ~HasBit(TM2, i) /\ HasBit(AM2, i)
    /\ \E j \in AllNibbles : HasBit(And(TM1, AM1), j) /\ HasBit(TM2, j) /\ ~HasBit(AM2, j)

\* C2: on success the result starts with touchMap1 | touchMap2 and afterMap2, big-endian.
C2_MergeHeader ==
    (IsMergeOp /\ Len(branch1.data) > 0 /\ Len(branch2.data) > 0 /\ out.st = "ok") =>
        /\ Len(MergedBytes) >= 4
        /\ \A i \in AllNibbles :
              /\ HasBit(MergedBytes[1] * 256 + MergedBytes[2], i)
                    <=> (HasBit(TM1, i) \/ HasBit(TM2, i))
              /\ HasBit(MergedBytes[3] * 256 + MergedBytes[4], i) <=> HasBit(AM2, i)

\* a successful merge whose touch maps are incomparable and whose after maps differ
C2_Witness ==
    /\ op = "Merge" /\ out.st = "ok"
    /\ And(TM1, TM2) # TM1 /\ And(TM1, TM2) # TM2
    /\ \E i \in AllNibbles : HasBit(AM1, i) /\ ~HasBit(AM2, i)
    /\ \E i \in AllNibbles : i >= 8 /\ HasBit(TM1, i)

\* C3 as claimed: for every pair of well-formed branches and every nibble i that
\* branch2 touches, the merged block at i is branch2's block, or absent when
\* afterMap2 has bit i clear.
C3_ShadowEveryPair ==
    (IsMergeOp /\ BothWellFormed) =>
        /\ out.st = "ok"
        /\ LET L2 == Layout(branch2.data)
               Lm == Layout(MergedBytes)
           IN \A i \in AllNibbles : HasBit(TM2, i) =>
                 Lm.blk[i] = (IF HasBit(AM2, i) THEN L2.blk[i] ELSE <<>>)

\* C3 amended: the shadowing holds for the pairs in which afterMap2 claims no
\* child that branch1 deletes and branch2 does not touch.
C3_ShadowNoOrphan ==
    (IsMergeOp /\ BothWellFormed /\ NoOrphan) =>
        /\ out.st = "ok"
        /\ LET L2 == Layout(branch2.data)
               Lm == Layout(MergedBytes)
           IN \A i \in AllNibbles : HasBit(TM2, i) =>
                 Lm.blk[i] = (IF HasBit(AM2, i) THEN L2.blk[i] ELSE <<>>)

\* branch2 replaces a different block of branch1 at one nibble and deletes
\* another child that branch1 carries
C3_Witness ==
    /\ op = "Merge" /\ out.st = "ok" /\ BothWellFormed /\ NoOrphan
    /\ \E i \in AllNibbles :
          /\ HasBit(And(TM1, AM1), i) /\ HasBit(And(TM2, AM2), i)
          /\ Layout(branch1.data).blk[i] # Layout(branch2.data).blk[i]
    /\ \E j \in AllNibbles : HasBit(And(TM1, AM1), j) /\ HasBit(TM2, j) /\ ~HasBit(AM2, j)

\* DecodeCells decodes the branch b
Decodable(b) == DecodeCells(Bytes(b)).st = "ok"

BothDecodable == Decodable(branch1.data) /\ Decodable(branch2.data)

\* C4 as claimed: for every pair of well-formed branches the merged branch
\* carries exactly one payload block per bit of touchMap_out & afterMap_out
\* and DecodeCells decodes it.
C4_OutputWellFormedEveryPair ==
    (IsMergeOp /\ BothWellFormed) =>
        (out.st = "ok" /\ WellFormed(MergedBytes) /\ Decodable(MergedBytes))

\* C4 amended: the merged branch is well-formed and DecodeCells decodes it,
\* for the pairs of branches that DecodeCells decodes and in which afterMap2
\* claims no child that branch1 deletes and branch2 does not touch.
C4_OutputWellFormedNoOrphan ==
    (IsMergeOp /\ BothWellFormed /\ BothDecodable /\ NoOrphan) =>
        (out.st = "ok" /\ WellFormed(MergedBytes) /\ Decodable(MergedBytes))

\* a merge whose output has a block from branch1 and a block from branch2
C4_Witness ==
    /\ op = "Merge" /\ out.st = "ok" /\ BothWellFormed /\ BothDecodable /\ NoOrphan
    /\ Decodable(MergedBytes) /\ Len(MergedBytes) > 4
    /\ \E i \in AllNibbles : HasBit(And(TM1, AM1), i) /\ ~HasBit(TM2, i) /\ HasBit(AM2, i)
    /\ \E j \in AllNibbles : HasBit(And(TM2, AM2), j)

\* C10: when touchMap1 is a subset of touchMap2, MergeHexBranches with an empty
\* destination returns the bytes of branch2.
C10_Absorption ==
    (op = "MergeHexBranches" /\ Len(newData.data) = 0 /\ BothWellFormed
        /\ And(TM1, TM2) = TM1) =>
        (out.st = "ok" /\ out.data = branch2.data)

\* branch2 covers branch1 and carries another block at a nibble both describe
C10_Witness ==
    /\ op = "MergeHexBranches" /\ Len(newData.data) = 0 /\ out.st = "ok"
    /\ BothWellFormed /\ And(TM1, TM2) = TM1 /\ TM1 # 0
    /\ \E i \in AllNibbles :
          /\ HasBit(And(TM1, AM1), i) /\ HasBit(And(TM2, AM2), i)
          /\ Layout(branch1.data).blk[i] # Layout(branch2.data).blk[i]

(***************************************************************************)
(* Encoding a row of cells, then decoding or self-merging the result       *)
(***************************************************************************)
FieldOf(base) == [k \in 1..MaxFieldLen |-> base + k]

\* a hash-only cell; an account with hash; a storage leaf that also has an
\* extension; an account with extension
CellPool ==
    { [extension |-> <<>>, apk |-> <<>>, spk |-> <<>>, h |-> FieldOf(40)],
      [extension |-> <<>>, apk |-> FieldOf(20), spk |-> <<>>, h |-> FieldOf(50)],
      [extension |-> FieldOf(10), apk |-> <<>>, spk |-> FieldOf(30), h |-> <<>>],
      [extension |-> FieldOf(60), apk |-> FieldOf(70), spk |-> <<>>, h |-> <<>>] }

\* what readCell may return: a cell, or an error
ReadCellResults ==
    {[err |-> FALSE, cell |-> c] : c \in CellPool} \cup {[err |-> TRUE, cell |-> NoCell]}

Rows == {[i \in AllNibbles |-> IF i \in UsedNibbles THEN f[i] ELSE [err |-> FALSE, cell |-> NoCell]]
            : f \in [UsedNibbles -> ReadCellResults]}

SubMasks(m) == {Mask(S) : S \in SUBSET BitsOf(m)}

InitEnc ==
    /\ touchMap \in UsedMasks
    /\ afterMap \in UsedMasks
    /\ bitmap \in SubMasks(afterMap)
    /\ row \in Rows
    /\ calls = <<>>
    /\ branch1 = NilSlice /\ branch2 = NilSlice /\ newData = NilSlice
    /\ op = "init"
    /\ out = NoOut
    /\ OthersIdle

DoEncodeBranch ==
    /\ op = "init"
    /\ LET r == EncodeBranch(bitmap, touchMap, afterMap, row) IN
          /\ out' = [st |-> r.st, data |-> r.data, lastNibble |-> r.lastNibble]
          /\ calls' = r.calls
    /\ op' = "EncodeBranch"
    /\ UNCHANGED <<branch1, branch2, newData, row, bitmap, touchMap, afterMap>>
    /\ UNCHANGED others

\* enc.DecodeCells() on a copy of the encoded branch
DoDecodeEncoded ==
    /\ op = "EncodeBranch" /\ out.st = "ok"
    /\ branch1' = Bytes(out.data)
    /\ out' = DecodeCells(Bytes(out.data))
    /\ op' = "DecodeCells"
    /\ UNCHANGED <<branch2, newData, row, bitmap, touchMap, afterMap, calls>>
    /\ UNCHANGED others

\* merger.Merge(enc, enc) on a copy of the encoded branch
DoMergeEncoded ==
    /\ op = "EncodeBranch" /\ out.st = "ok"
    /\ branch1' = Bytes(out.data)
    /\ branch2' = Bytes(out.data)
    /\ out' = Merge(Bytes(out.data), Bytes(out.data))
    /\ mbuf' = MergeScratch(Bytes(out.data), Bytes(out.data), mbuf)
    /\ op' = "Merge"
    /\ UNCHANGED <<newData, row, bitmap, touchMap, afterMap, calls>>
    /\ UNCHANGED <<branch3, results, statKey, total, collected, loads, pcCalls, updates>>

NextEnc == DoEncodeBranch \/ DoDecodeEncoded \/ DoMergeEncoded

SpecEnc == InitEnc /\ [][NextEnc]_vars

\* index of the highest set bit of a non-zero bitmap
HighestBit(m) == CHOOSE i \in BitsOf(m) : \A j \in BitsOf(m) : j <= i

\* the nibbles of the readCell calls, in call order
CallNibbles == [k \in 1..Len(calls) |-> calls[k].nibble]
UpTo(n) == [k \in 1..(n + 1) |-> k - 1]

\* C5 as claimed: with bitmap = tm & am the decoded row carries, for every i in
\* tm & am, the extension, account key, storage key and hash of row[i], and is
\* null at every other i.
C5_RoundTripEveryRow ==
    (op = "DecodeCells" /\ bitmap = And(touchMap, afterMap)) =>
        /\ out.st = "ok" /\ out.touchMap = touchMap /\ out.afterMap = afterMap
        /\ \A i \in AllNibbles :
              IF HasBit(And(touchMap, afterMap), i)
              THEN ~out.row[i].isNil /\ out.row[i].cell = row[i].cell
              ELSE out.row[i].isNil

\* C5 amended: the account key, storage key and hash always round-trip; the
\* extension round-trips for the cells without a storage key and is decoded
\* empty for the cells with one.
C5_RoundTripExtUnlessStorage ==
    (op = "DecodeCells" /\ bitmap = And(touchMap, afterMap)) =>
        /\ out.st = "ok" /\ out.touchMap = touchMap /\ out.afterMap = afterMap
        /\ \A i \in AllNibbles :
              IF HasBit(And(touchMap, afterMap), i)
              THEN /\ ~out.row[i].isNil
                   /\ out.row[i].cell.apk = row[i].cell.apk
                   /\ out.row[i].cell.spk = row[i].cell.spk
                   /\ out.row[i].cell.h = row[i].cell.h
                   /\ out.row[i].cell.extension =
                         (IF Len(row[i].cell.spk) > 0 THEN <<>> ELSE row[i].cell.extension)
              ELSE out.row[i].isNil

\* a decoded branch with a deleted child, an extension cell and a storage cell
C5_Witness ==
    /\ op = "DecodeCells" /\ out.st = "ok" /\ bitmap = And(touchMap, afterMap)
    /\ \E i \in AllNibbles : HasBit(bitmap, i) /\ Len(row[i].cell.spk) > 0
                             /\ Len(row[i].cell.extension) > 0
    /\ \E i \in AllNibbles : HasBit(bitmap, i) /\ Len(row[i].cell.spk) = 0
                             /\ Len(row[i].cell.extension) > 0

\* C6 as claimed: a successful EncodeBranch calls readCell for the nibbles
\* 0, 1, ..., h in this order, h the highest set bit of touchMap.
C6_CallsUpToTouchMap ==
    (op = "EncodeBranch" /\ out.st = "ok" /\ touchMap # 0) =>
        CallNibbles = UpTo(HighestBit(touchMap))

\* C6 amended: a successful EncodeBranch calls readCell for the nibbles
\* 0, 1, ..., h in this order, h the highest set bit of afterMap, with skip set
\* exactly for the nibbles outside afterMap; it makes no call when afterMap is 0;
\* the number of calls is the lastNibble it returns.
C6_CallsUpToAfterMap ==
    (op = "EncodeBranch" /\ out.st = "ok") =>
        /\ CallNibbles = (IF afterMap = 0 THEN <<>> ELSE UpTo(HighestBit(afterMap)))
        /\ \A k \in 1..Len(calls) : calls[k].skip <=> ~HasBit(afterMap, calls[k].nibble)
        /\ Len(calls) = out.lastNibble

\* an encoding that skipped nibbles, with touchMap ending at another nibble than afterMap
C6_Witness ==
    /\ op = "EncodeBranch" /\ out.st = "ok"
    /\ \E k \in 1..Len(calls) : calls[k].skip
    /\ \E k \in 1..Len(calls) : ~calls[k].skip
    /\ touchMap # 0 /\ afterMap # 0 /\ HighestBit(touchMap) # HighestBit(afterMap)

\* C9 as claimed: for every branch b that EncodeBranch produces, Merge(b, b)
\* succeeds and returns the bytes of b.
C9_IdempotentEveryEncoding ==
    (op = "Merge" /\ branch1 = branch2) => (out.st = "ok" /\ out.data = branch1.data)

\* C9 amended: Merge(b, b) returns the bytes of b for every branch b that
\* EncodeBranch produces with bitmap = touchMap & afterMap.
C9_IdempotentWhenBitmapMatches ==
    (op = "Merge" /\ branch1 = branch2 /\ bitmap = And(touchMap, afterMap)) =>
        (out.st = "ok" /\ out.data = branch1.data)

\* a self-merge of an encoding with two blocks and a child outside touchMap
C9_Witness ==
    /\ op = "Merge" /\ branch1 = branch2 /\ out.st = "ok"
    /\ bitmap = And(touchMap, afterMap)
    /\ Cardinality(BitsOf(bitmap)) >= 2
    /\ Len(branch1.data) > 4 + 2

(***************************************************************************)
(* Arbitrary byte strings as branches                                      *)
(***************************************************************************)
\* a fieldBits without field or a zero length; a HashedKeyPart or a length 1;
\* an AccountPlainPart or a length 2; a varint continuation byte, or a
\* fieldBits with a bit outside PartFlags
TailBytes == {0, 1, 2, 129}
RawMasks == {0, 1}

RECURSIVE SeqsUpTo(_, _)
SeqsUpTo(S, n) ==
    IF n = 0 THEN {<<>>}
    ELSE LET shorter == SeqsUpTo(S, n - 1) IN
         shorter \cup {Append(q, x) : q \in {r \in shorter : Len(r) = n - 1}, x \in S}

\* nil, empty, strings shorter than a header, and headers followed by any tail
RawInputs ==
    {NilSlice, Bytes(<<>>), Bytes(<<0>>), Bytes(<<0, 1>>), Bytes(<<0, 1, 0>>)}
    \cup {Bytes(PutUint16(tm) \o PutUint16(am) \o t)
             : tm \in RawMasks, am \in RawMasks, t \in SeqsUpTo(TailBytes, MaxTail)}

InitRaw ==
    /\ branch1 \in RawInputs
    /\ branch2 \in RawInputs
    /\ newData = NilSlice
    /\ EncoderIdle
    /\ op = "init"
    /\ out = NoOut
    /\ OthersIdle

DoDecodeCells ==
    /\ op = "init"
    /\ op' = "DecodeCells"
    /\ out' = DecodeCells(branch1)
    /\ UNCHANGED <<branch1, branch2, newData, row, bitmap, touchMap, afterMap, calls>>
    /\ UNCHANGED others

\* the call's result, tagged with the behaviour of the callback it was given
WithFn(r, mode) ==
    [st |-> r.st, data |-> r.data, isNil |-> r.isNil, alias |-> r.alias, keys |-> r.keys,
     fn |-> mode.kind]

\* what may lie between len and cap of a slice: nothing, the zero bytes of a
\* fresh allocation, stale bytes of a reused buffer
ZeroSpares == {<<>>, <<0, 0, 0, 0, 0, 0, 0>>}
Spares == ZeroSpares \cup {<<9, 9, 9>>}

DoReplacePlainKeys ==
    /\ op = "init"
    /\ \E mode \in FnModes, spare \in Spares :
          out' = WithFn(ReplacePlainKeys(WithSpare(branch1, spare), newData, mode), mode)
    /\ op' = "ReplacePlainKeys"
    /\ UNCHANGED <<branch1, branch2, newData, row, bitmap, touchMap, afterMap, calls>>
    /\ UNCHANGED others

NextRaw == DoMerge \/ DoMergeHexBranches \/ DoDecodeCells \/ DoReplacePlainKeys

SpecRaw == InitRaw /\ [][NextRaw]_vars

\* C19: on non-empty byte strings MergeHexBranches and Merge either both
\* return an error or both return bytes, those of MergeHexBranches being the
\* prior content of its destination followed by the bytes Merge returns
C19_MergersAgree ==
    (op = "MergeHexBranches" /\ Len(branch1.data) > 0 /\ Len(branch2.data) > 0) =>
        \/ out.st = "err" /\ Merge(branch1, branch2).st = "err"
        \/ /\ out.st = "ok" /\ Merge(branch1, branch2).st = "ok"
           /\ out.data = newData.data \o Merge(branch1, branch2).data

(***************************************************************************)
(* A chain of two merges over three well-formed branches, grouped both     *)
(* ways: Merge(Merge(a, b), c) and Merge(a, Merge(b, c)).                  *)
(***************************************************************************)
\* number of distinct payload blocks a branch of a triple draws from
MaxAssocBlocks == 2

\* an account key; a hash; no field; an extension with a two-byte length and an empty hash
AssocBlockPool == <<<<2, 1, 7>>, <<8, 1, 5>>, <<0>>, <<9, 129, 0, 5, 0>>>>
AssocBlocks == {AssocBlockPool[k] : k \in 1..MaxAssocBlocks}
AssocMasks == {Mask(S) : S \in SUBSET {0, 9}}

AssocBranches ==
    UNION {UNION {{MkBranch(tm, am, f) : f \in [BitsOf(And(tm, am)) -> AssocBlocks]}
                  : am \in AssocMasks} : tm \in AssocMasks}

\* ab, err := m.Merge(a, b); if err != nil { return nil, err }; return m.Merge(ab, c)
MergeLeft(a, b, c) ==
    LET ab == Merge(a, b) IN
    IF ab.st # "ok" THEN ab ELSE Merge([isNil |-> ab.isNil, data |-> ab.data], c)

\* bc, err := m.Merge(b, c); if err != nil { return nil, err }; return m.Merge(a, bc)
MergeRight(a, b, c) ==
    LET bc == Merge(b, c) IN
    IF bc.st # "ok" THEN bc ELSE Merge(a, [isNil |-> bc.isNil, data |-> bc.data])

\* m.buf after the two merges of MergeLeft
ScratchLeft(a, b, c, scratch) ==
    IF Merge(a, b).st # "ok" THEN MergeScratch(a, b, scratch)
    ELSE MergeScratch([isNil |-> Merge(a, b).isNil, data |-> Merge(a, b).data], c,
                      MergeScratch(a, b, scratch))

\* m.buf after the two merges of MergeRight
ScratchRight(a, b, c, scratch) ==
    IF Merge(b, c).st # "ok" THEN MergeScratch(b, c, scratch)
    ELSE MergeScratch(a, [isNil |-> Merge(b, c).isNil, data |-> Merge(b, c).data],
                      MergeScratch(b, c, scratch))

InitAssoc ==
    /\ branch1 \in {Bytes(b) : b \in AssocBranches}
    /\ branch2 \in {Bytes(b) : b \in AssocBranches}
    /\ branch3 \in {Bytes(b) : b \in AssocBranches}
    /\ newData = NilSlice
    /\ EncoderIdle
    /\ op = "init"
    /\ out = NoOut
    /\ HelpersIdle

DoMergeChain ==
    /\ op = "init"
    /\ op' = "MergeChain"
    /\ out' = [st |-> "ok", left |-> MergeLeft(branch1, branch2, branch3),
                            right |-> MergeRight(branch1, branch2, branch3)]
    /\ mbuf' = ScratchRight(branch1, branch2, branch3,
                            ScratchLeft(branch1, branch2, branch3, mbuf))
    /\ UNCHANGED <<branch1, branch2, branch3, newData, row, bitmap, touchMap, afterMap, calls>>
    /\ UNCHANGED <<results, statKey, total, collected, loads, pcCalls, updates>>

NextAssoc == DoMergeChain

SpecAssoc == InitAssoc /\ [][NextAssoc]_vars

\* a nibble the earlier branch x deletes while the later branch y, without
\* touching it, lists it as present
OrphanPair(x, y) ==
    \E i \in AllNibbles :
        /\ HasBit(Uint16(x, 0), i) /\ ~HasBit(Uint16(x, 2), i)
        /\ ~HasBit(Uint16(y, 0), i) /\ HasBit(Uint16(y, 2), i)

\* C11 as stated: on every triple of well-formed non-empty branches both
\* groupings of the two merges succeed and return equal bytes
C11_AssociativeEveryTriple ==
    op = "MergeChain" =>
        /\ out.left.st = "ok" /\ out.right.st = "ok"
        /\ out.left.data = out.right.data

\* the afterMap of the later branch y agrees with that of the earlier branch x
\* on every nibble x touches and y does not
AfterMapAgrees(x, y) ==
    \A i \in AllNibbles :
        (HasBit(Uint16(x, 0), i) /\ ~HasBit(Uint16(y, 0), i))
            => (HasBit(Uint16(x, 2), i) <=> HasBit(Uint16(y, 2), i))

ChainAgrees ==
    /\ AfterMapAgrees(branch1.data, branch2.data)
    /\ AfterMapAgrees(branch2.data, branch3.data)

\* C11, amended: when the afterMap of b agrees with that of a on the nibbles a
\* touches and b does not, and likewise the afterMap of c with that of b, both
\* groupings of the two merges succeed and return equal bytes
C11_AssociativeWhenAgree ==
    (op = "MergeChain" /\ ChainAgrees) =>
        /\ out.left.st = "ok" /\ out.right.st = "ok"
        /\ out.left.data = out.right.data

\* an agreeing chain in which every branch carries a block, a block of the
\* first branch survives both merges and the result is none of the inputs
C11_Witness ==
    /\ op = "MergeChain" /\ ChainAgrees
    /\ \A s \in {branch1, branch2, branch3} : And(Uint16(s.data, 0), Uint16(s.data, 2)) # 0
    /\ \E i \in AllNibbles :
          /\ HasBit(And(Uint16(branch1.data, 0), Uint16(branch1.data, 2)), i)
          /\ ~HasBit(Uint16(branch2.data, 0), i) /\ ~HasBit(Uint16(branch3.data, 0), i)
          /\ HasBit(Uint16(branch3.data, 2), i)
    /\ out.left.st = "ok" /\ out.left.data = out.right.data
    /\ out.left.data \notin {branch1.data, branch2.data, branch3.data}

(***************************************************************************)
(* Rewriting the plain keys of well-formed branches, and rewriting them    *)
(* back with the keys the first pass recorded                              *)
(***************************************************************************)
\* payload blocks: an account key of 5 bytes; a storage key of 9 bytes; an
\* account and a storage key; an extension and a hash (no plain key); an
\* account key whose length 5 is written in two varint bytes; an account key
\* of 4 bytes; an account key of 1 byte; an account key of length 0
KeyBlockPool ==
    {<<2, 5, 11, 12, 13, 14, 15>>,
     <<4, 9, 21, 22, 23, 24, 25, 26, 27, 28, 29>>,
     <<6, 5, 31, 32, 33, 34, 35, 9, 41, 42, 43, 44, 45, 46, 47, 48, 49>>,
     <<9, 1, 5, 1, 3>>,
     <<2, 133, 0, 51, 52, 53, 54, 55>>,
     <<2, 4, 61, 62, 63, 64>>,
     <<2, 1, 7>>,
     <<2, 0>>}

KeyBranches ==
    UNION {UNION {{MkBranch(tm, am, f) : f \in [BitsOf(And(tm, am)) -> KeyBlockPool]}
                  : am \in UsedMasks} : tm \in UsedMasks}

InitKeys ==
    /\ branch1 \in {Bytes(b) : b \in KeyBranches}
    /\ branch2 = NilSlice
    /\ newData \in Dsts
    /\ EncoderIdle
    /\ op = "init"
    /\ out = NoOut
    /\ OthersIdle

\* oldKeys = append(oldKeys, key): the keys of the calls fn received
OldKeys(keys) == [k \in 1..Len(keys) |-> keys[k].key]

\* replaced.ReplacePlainKeys(nil, fn) with fn returning oldKeys[keyI] at call keyI
DoReplaceBack ==
    /\ op = "ReplacePlainKeys" /\ out.st = "ok"
    /\ \E spare \in ZeroSpares :
          out' = WithFn(ReplacePlainKeys(WithSpare(out, spare), NilSlice,
                                        FnRestore(OldKeys(out.keys))),
                       FnRestore(OldKeys(out.keys)))
    /\ op' = "ReplaceBack"
    /\ UNCHANGED <<branch1, branch2, newData, row, bitmap, touchMap, afterMap, calls>>
    /\ UNCHANGED others

NextKeys == DoReplacePlainKeys \/ DoReplaceBack

SpecKeys == InitKeys /\ [][NextKeys]_vars

\* in the block blk the length prefix of every account and storage key is the
\* shortest varuint of its value (the fields of fieldBits from part on, at pos)
RECURSIVE KeyPrefixesShortest(_, _, _)
KeyPrefixesShortest(blk, pos, part) ==
    IF part > 3 THEN TRUE
    ELSE IF ~HasBit(blk[1], part) THEN KeyPrefixesShortest(blk, pos, part + 1)
    ELSE LET u == Uvarint(blk, pos) IN
         /\ (part \in {1, 2} => u.n = Len(PutUvarint(u.l)))
         /\ KeyPrefixesShortest(blk, pos + u.n + u.l, part + 1)

CanonicalKeyLengths(b) ==
    \A i \in BitsOf(And(Uint16(b, 0), Uint16(b, 2))) :
        KeyPrefixesShortest(Layout(b).blk[i], 1, 0)

\* number of account and storage keys in the block blk
PlainKeyCount(blk) ==
    IF blk = <<>> THEN 0 ELSE Bit(blk[1], 1) + Bit(blk[1], 2)

HasPlainKey(b) == \E i \in AllNibbles : PlainKeyCount(Layout(b).blk[i]) > 0

\* the inverse returned a key at every call: it neither panicked nor failed
\* its requirement
InverseReturned == out.fn = "restore" /\ out.st \notin {"fn panic", "fn failnow"}

\* C12 as stated: rewriting the keys of any well-formed branch and rewriting
\* them back with the recorded originals gives the branch byte for byte
C12_RoundTripEveryBranch ==
    (op = "ReplaceBack" /\ InverseReturned) => (out.st = "ok" /\ out.data = branch1.data)

\* C12, amended: the round trip gives the branch byte for byte when every
\* plain-key length prefix of the branch is the shortest varuint of its value
C12_RoundTripCanonicalLengths ==
    (op = "ReplaceBack" /\ InverseReturned /\ CanonicalKeyLengths(branch1.data)) =>
        (out.st = "ok" /\ out.data = branch1.data)

\* a canonical branch with two blocks holding an account and a storage key,
\* whose keys the first pass cut to 4 and 8 bytes and the second pass restored
C12_Witness ==
    /\ op = "ReplaceBack" /\ InverseReturned /\ CanonicalKeyLengths(branch1.data)
    /\ \E k \in 1..Len(out.keys) :
          out.keys[k].isStorage /\ Len(out.keys[k].key.data) = StorageShort
    /\ \E k \in 1..Len(out.keys) :
          ~out.keys[k].isStorage /\ Len(out.keys[k].key.data) = AccountShort
    /\ Len(out.data) >= 4 + 7 + 11
    /\ \E i, j \in AllNibbles :
          /\ i # j
          /\ PlainKeyCount(Layout(branch1.data).blk[i]) > 0
          /\ PlainKeyCount(Layout(branch1.data).blk[j]) > 0
          /\ HasBit(Layout(branch1.data).blk[j][1], 2)
    /\ out.fn = "restore" /\ Len(out.keys) >= 2
    /\ out.st = "ok" /\ out.data = branch1.data

\* C13: with a substitution function that returns nil for every key the
\* rewriter returns the bytes of the branch; a branch with
\* touchMap & afterMap = 0 is returned itself and the function is not called
C13_KeyRewriteIdentity ==
    (op = "ReplacePlainKeys" /\ out.fn = "keep") =>
        /\ out.st = "ok" /\ out.data = branch1.data
        /\ And(Uint16(branch1.data, 0), Uint16(branch1.data, 2)) = 0
              => (out.keys = <<>> /\ out.alias = "branch1")

\* the function returned nil for at least two keys, one of them behind a
\* two-byte length prefix, and the rewritten bytes are those of the branch
C13_Witness ==
    /\ op = "ReplacePlainKeys" /\ out.fn = "keep"
    /\ Len(out.keys) >= 2
    /\ ~CanonicalKeyLengths(branch1.data)
    /\ out.alias = "newData" /\ out.data = branch1.data

\* every key the substitution function was called with is longer than what
\* "shorten" cuts it to, so that it returned a strictly shorter key each time
EveryKeyShortened ==
    /\ out.fn = "shorten"
    /\ \A k \in 1..Len(out.keys) :
          Len(out.keys[k].key.data) > IF out.keys[k].isStorage THEN StorageShort ELSE AccountShort

\* C14: when the branch holds a plain key and the function returns a strictly
\* shorter key for every key, the rewritten branch is strictly shorter
C14_ShorterWhenKeysShortened ==
    (op = "ReplacePlainKeys" /\ EveryKeyShortened /\ HasPlainKey(branch1.data)) =>
        (out.st = "ok" /\ Len(out.data) < Len(branch1.data))

\* two keys were shortened in a branch that also has a block without a plain key
C14_Witness ==
    /\ op = "ReplacePlainKeys" /\ EveryKeyShortened /\ HasPlainKey(branch1.data)
    /\ Len(out.keys) >= 2
    /\ \E i \in AllNibbles : Layout(branch1.data).blk[i] = <<9, 1, 5, 1, 3>>
    /\ \E k \in 1..Len(out.keys) : out.keys[k].isStorage
    /\ out.st = "ok" /\ Len(out.data) + 2 <= Len(branch1.data)

(***************************************************************************)
(* Buffer ownership of BranchMerger.Merge: one merger is called several    *)
(* times, the caller keeps the returned slices and later overwrites the    *)
(* buffers it passed in.  A returned slice is a record [alias, data,       *)
(* returned]: alias names the storage it points into ("branch1" or         *)
(* "branch2": the input buffer, "fresh": storage of its own holding data)  *)
(* and returned is what it read when Merge returned it.                    *)
(***************************************************************************)
\* number of results the caller keeps
MaxResults == 2

OwnerInputs == {NilSlice, Bytes(<<>>)} \cup {Bytes(b) : b \in AssocBranches}

InitOwner ==
    /\ branch1 \in OwnerInputs
    /\ branch2 \in OwnerInputs
    /\ newData = NilSlice
    /\ EncoderIdle
    /\ op = "init"
    /\ out = NoOut
    /\ OthersIdle

\* res, err := m.Merge(branch1, branch2), the caller keeping res
DoMergeKeep ==
    /\ Len(results) < MaxResults
    /\ out' = Merge(branch1, branch2)
    /\ mbuf' = MergeScratch(branch1, branch2, mbuf)
    /\ results' = IF out'.st = "ok"
                  THEN Append(results, [alias |-> out'.alias, data |-> out'.data,
                                        returned |-> out'.data])
                  ELSE results
    /\ op' = "Merge"
    /\ UNCHANGED <<branch1, branch2, branch3, newData, row, bitmap, touchMap, afterMap, calls>>
    /\ UNCHANGED <<statKey, total, collected, loads, pcCalls, updates>>

Zeros(n) == [k \in 1..n |-> 0]

\* the caller reuses the buffer of branch1: every byte is overwritten with 0
DoOverwriteBranch1 ==
    /\ op = "Merge"
    /\ branch1.data # Zeros(Len(branch1.data))
    /\ branch1' = [branch1 EXCEPT !.data = Zeros(Len(branch1.data))]
    /\ UNCHANGED <<branch2, branch3, newData, row, bitmap, touchMap, afterMap, calls,
                   op, out, mbuf, results, statKey, total, collected, loads, pcCalls, updates>>

\* the caller reuses the buffer of branch2
DoOverwriteBranch2 ==
    /\ op = "Merge"
    /\ branch2.data # Zeros(Len(branch2.data))
    /\ branch2' = [branch2 EXCEPT !.data = Zeros(Len(branch2.data))]
    /\ UNCHANGED <<branch1, branch3, newData, row, bitmap, touchMap, afterMap, calls,
                   op, out, mbuf, results, statKey, total, collected, loads, pcCalls, updates>>

NextOwner == DoMergeKeep \/ DoOverwriteBranch1 \/ DoOverwriteBranch2

SpecOwner == InitOwner /\ [][NextOwner]_vars

\* the bytes a kept result reads now
ReadResult(r) ==
    IF r.alias = "branch1" THEN branch1.data
    ELSE IF r.alias = "branch2" THEN branch2.data
    ELSE r.data

\* C15: every slice Merge returned has storage of its own, and reads the
\* bytes it was returned with whatever was merged or overwritten since
C15_ResultsFreshAndStable ==
    \A k \in 1..Len(results) :
        /\ results[k].alias = "fresh"
        /\ ReadResult(results[k]) = results[k].returned

(***************************************************************************)
(* Collecting the statistics of branches into a total                      *)
(***************************************************************************)
\* number of stats collected into the total
MaxCollected == 2

\* no key, the key of the root branch, two ordinary keys
StatKeys == {<<>>, StateKey, <<1>>, <<1, 2>>}

\* nil; a single byte; no cell; a hash; an account key and a storage key; an
\* extension with a hash and a hash; an extension alone; a hash cut short
StatBranches ==
    {NilSlice, Bytes(<<0>>), Bytes(<<0, 0, 0, 0>>),
     Bytes(<<0, 1, 0, 1, 8, 1, 5>>),
     Bytes(<<2, 1, 2, 1, 2, 1, 7, 4, 2, 7, 8>>),
     Bytes(<<2, 1, 2, 1, 9, 1, 5, 1, 3, 8, 1, 5>>),
     Bytes(<<0, 1, 0, 1, 1, 1, 5>>),
     Bytes(<<0, 1, 0, 1, 8, 9>>)}

InitStat ==
    /\ branch1 = NilSlice /\ branch2 = NilSlice /\ newData = NilSlice
    /\ EncoderIdle
    /\ op = "init"
    /\ out = NoOut
    /\ OthersIdle

\* stat := DecodeBranchAndCollectStat(key, branch, tv)
DoDecodeBranchAndCollectStat ==
    /\ op \in {"init", "Collect"}
    /\ Len(collected) < MaxCollected
    /\ \E k \in StatKeys, b \in StatBranches, tv \in {"hex", "bin"} :
          /\ statKey' = k
          /\ branch1' = b
          /\ out' = DecodeBranchAndCollectStat(k, b, tv)
    /\ op' = "DecodeBranchAndCollectStat"
    /\ UNCHANGED <<branch2, branch3, newData, row, bitmap, touchMap, afterMap, calls>>
    /\ UNCHANGED <<mbuf, results, total, collected, loads, pcCalls, updates>>

\* total.Collect(stat)
DoCollect ==
    /\ op = "DecodeBranchAndCollectStat" /\ out.st = "ok"
    /\ total' = Collect(total, out)
    /\ collected' = Append(collected, [isNil |-> out.isNil, stat |-> out.stat])
    /\ op' = "Collect"
    /\ UNCHANGED <<branch1, branch2, branch3, newData, row, bitmap, touchMap, afterMap, calls>>
    /\ UNCHANGED <<out, mbuf, results, statKey, loads, pcCalls, updates>>

NextStat == DoDecodeBranchAndCollectStat \/ DoCollect

SpecStat == InitStat /\ [][NextStat]_vars

\* the fields Collect adds up
AddedFields ==
    {"KeySize", "ValSize", "CellCount", "APKSize", "SPKSize", "ExtSize", "HashSize",
     "APKCount", "SPKCount", "HashCount", "ExtCount"}

\* sum of field f over the first n collected stats that are not root stats
RECURSIVE SumNonRoot(_, _)
SumNonRoot(f, n) ==
    IF n = 0 THEN 0
    ELSE SumNonRoot(f, n - 1)
         + (IF collected[n].isNil \/ collected[n].stat.IsRoot THEN 0 ELSE collected[n].stat[f])

\* C16: the sizes and counts of the total are the sums over the collected
\* stats that are not root stats (collecting a root stat changes nothing)
C16_RootNeverAccumulated ==
    \A f \in AddedFields : total[f] = SumNonRoot(f, Len(collected))

\* the encoded sizes of the present cells of the decoded branch1
CellSizes ==
    LET d == DecodeCells(branch1) IN
    IF d.st # "ok" THEN {}
    ELSE {Len(CellEncode(d.row[i].cell)) : i \in {j \in AllNibbles : ~d.row[j].isNil}}

SetMin(S) == CHOOSE x \in S : \A y \in S : x <= y
SetMax(S) == CHOOSE x \in S : \A y \in S : y <= x

\* the stats collected so far that came from branches with a present cell
WithCells == {k \in 1..Len(collected) : ~collected[k].isNil /\ collected[k].stat.CellCount > 0}

\* C17: for a non-root key and a well-formed branch with a present cell the
\* stat reports the smallest and the largest encoded cell size, and the total
\* keeps the minimum and the maximum over the collected stats
C17_MinMaxCellSize ==
    /\ (/\ op = "DecodeBranchAndCollectStat"
        /\ Len(statKey) > 0 /\ statKey # StateKey
        /\ WellFormed(branch1.data) /\ CellSizes # {})
          => (/\ out.st = "ok" /\ ~out.isNil
              /\ out.stat.MinCellSize = SetMin(CellSizes)
              /\ out.stat.MaxCellSize = SetMax(CellSizes))
    /\ (op = "Collect" /\ WithCells # {})
          => (/\ total.MinCellSize = SetMin({collected[k].stat.MinCellSize : k \in WithCells})
              /\ total.MaxCellSize = SetMax({collected[k].stat.MaxCellSize : k \in WithCells}))

(***************************************************************************)
(* BranchEncoder.CollectUpdate, BranchEncoder.Load and                     *)
(* loadToPatriciaContextFunc, the load function the collector calls for    *)
(* every (prefix, update) pair.  Here a slice is [isNil, data, buf], buf   *)
(* naming the storage it points into: "etl" for the collector's buffers,   *)
(* "state" for what GetBranch returns, "copy" for what common.Copy makes.  *)
(* An invocation of the load function is a record of its arguments         *)
(* (prefix, update), its locals (stateValue, stateStep), its position pos  *)
(* ("GetBranch", "PutBranch", "done"), what the two calls returned to it   *)
(* (got, putErr) and what it returned (ret).                               *)
(***************************************************************************)
\* number of pairs collected and delivered in all
MaxPairs == 2

In(buf, d) == [isNil |-> FALSE, data |-> d, buf |-> buf]
NilIn == [isNil |-> TRUE, data |-> <<>>, buf |-> "none"]

\* common.Copy
Copy(b) == IF b.isNil THEN NilIn ELSE In("copy", b.data)

\* the prefixes CollectUpdate is called with
Prefixes == {<<>>, <<1>>, <<1, 2>>}

\* a readCell callback that answers every nibble alike
RowOf(res) == [i \in AllNibbles |-> res]

\* the branches CollectUpdate is called with: one cell with an account key and
\* a hash; two cells, the first left out of the payload; a failing readCell
CollectArgs ==
    {[bitmap |-> 1, touchMap |-> 1, afterMap |-> 1,
      row |-> RowOf([err |-> FALSE,
                     cell |-> [extension |-> <<>>, apk |-> <<20>>, spk |-> <<>>, h |-> <<50>>]])],
     [bitmap |-> 2, touchMap |-> 3, afterMap |-> 3,
      row |-> RowOf([err |-> FALSE,
                     cell |-> [extension |-> <<10>>, apk |-> <<>>, spk |-> <<30>>, h |-> <<>>]])],
     [bitmap |-> 1, touchMap |-> 1, afterMap |-> 1,
      row |-> RowOf([err |-> TRUE, cell |-> NoCell])]}

\* the collector holds a pair for prefix
Holds(upd, prefix) == \E k \in 1..Len(upd) : upd[k].prefix = prefix

\* be.updates.Collect(prefix, v) on a collector built on
\* etl.NewOldestEntryBuffer: the pair is appended unless the collector holds
\* a pair for prefix, whose value, the oldest, is kept
CollectorCollect(upd, prefix, v) ==
    IF Holds(upd, prefix) THEN upd ELSE Append(upd, [prefix |-> prefix, value |-> v])

\* v, ln, err := be.EncodeBranch(...), r; if err != nil { return 0, err }
\* if err := be.updates.Collect(prefix, v); err != nil { return 0, err }
\* return ln, nil
\* collectErr: Collect fails, leaving the collector as it was
CollectUpdate(upd, prefix, r, collectErr) ==
    IF r.st # "ok" THEN [st |-> r.st, lastNibble |-> 0, updates |-> upd, calls |-> r.calls]
    ELSE IF collectErr
    THEN [st |-> "err", lastNibble |-> 0, updates |-> upd, calls |-> r.calls]
    ELSE [st |-> "ok", lastNibble |-> r.lastNibble, calls |-> r.calls,
          updates |-> CollectorCollect(upd, prefix, r.data)]

\* bytes.Compare(a, b) < 0
RECURSIVE BytesLess(_, _)
BytesLess(a, b) ==
    IF b = <<>> THEN FALSE
    ELSE IF a = <<>> THEN TRUE
    ELSE IF a[1] # b[1] THEN a[1] < b[1]
    ELSE BytesLess(Tail(a), Tail(b))

RECURSIVE InsertPair(_, _)
InsertPair(sorted, pr) ==
    IF sorted = <<>> THEN <<pr>>
    ELSE IF BytesLess(pr.prefix, sorted[1].prefix) THEN <<pr>> \o sorted
    ELSE <<sorted[1]>> \o InsertPair(Tail(sorted), pr)

\* the pairs in prefix-sorted order
RECURSIVE SortedPairs(_)
SortedPairs(upd) ==
    IF upd = <<>> THEN <<>>
    ELSE InsertPair(SortedPairs(SubSeq(upd, 1, Len(upd) - 1)), upd[Len(upd)])

\* what pc.GetBranch may return: a missing key, a stored branch with its step, an error
GetResults ==
    {[value |-> NilIn, step |-> 0, err |-> FALSE],
     [value |-> In("state", <<0, 1, 0, 0>>), step |-> 3, err |-> FALSE],
     [value |-> NilIn, step |-> 0, err |-> TRUE]}

\* what the PatriciaContext answers to one invocation: get to GetBranch, the
\* error putErr to PutBranch (which is not called after a failed GetBranch)
PcAnswers == {a \in [get : GetResults, putErr : BOOLEAN] : ~(a.get.err /\ a.putErr)}

NewLoad(p, u) ==
    [prefix |-> p, update |-> u, pos |-> "GetBranch",
     stateValue |-> NilIn, stateStep |-> 0,
     got |-> [value |-> NilIn, step |-> 0, err |-> FALSE], putErr |-> FALSE, ret |-> "none"]

\* mutant: the error of GetBranch is dropped and PutBranch is called all the same
AfterGetBranch_IgnoreErr(l, g) ==
    [l EXCEPT !.got = g, !.stateValue = g.value, !.stateStep = g.step, !.pos = "PutBranch"]

\* stateValue, stateStep, err := pc.GetBranch(prefix); if err != nil { return err }
AfterGetBranch(l, g) ==
    IF g.err THEN [l EXCEPT !.got = g, !.pos = "done", !.ret = "err"]
    ELSE [l EXCEPT !.got = g, !.stateValue = g.value, !.stateStep = g.step, !.pos = "PutBranch"]

\* mutant: prefix and update are handed on without being copied
PutBranchCall_NoCopy(l) ==
    [name |-> "PutBranch", prefix |-> l.prefix, value |-> l.update,
     prevValue |-> l.stateValue, prevStep |-> l.stateStep]

\* cp, cu := common.Copy(prefix), common.Copy(update); pc.PutBranch(cp, cu, stateValue, stateStep)
PutBranchCall(l) ==
    [name |-> "PutBranch", prefix |-> Copy(l.prefix), value |-> Copy(l.update),
     prevValue |-> l.stateValue, prevStep |-> l.stateStep]

GetBranchCall(l) ==
    [name |-> "GetBranch", prefix |-> l.prefix, value |-> NilIn,
     prevValue |-> NilIn, prevStep |-> 0]

\* if err = pc.PutBranch(...); err != nil { return err }; return nil
AfterPutBranch(l, e) ==
    [l EXCEPT !.putErr = e, !.pos = "done", !.ret = IF e THEN "err" ELSE "nil"]

\* the invocation l after its GetBranch, run to its return
LoadFuncRest(l, l1, putErr) ==
    IF l1.pos = "PutBranch"
    THEN [load |-> AfterPutBranch(l1, putErr), calls |-> <<GetBranchCall(l), PutBranchCall(l1)>>]
    ELSE [load |-> l1, calls |-> <<GetBranchCall(l)>>]

\* one invocation of the function loadToPatriciaContextFunc returns, with the
\* pair the collector delivers and the answers of the PatriciaContext
LoadFunc(pair, answer) ==
    LoadFuncRest(NewLoad(In("etl", pair.prefix), In("etl", pair.value)),
                 AfterGetBranch(NewLoad(In("etl", pair.prefix), In("etl", pair.value)),
                                answer.get),
                 answer.putErr)

\* be.updates.Load(nil, "", load, args): load is called with the pairs in
\* turn (k of them done so far), the first error ends the iteration and is
\* returned
RECURSIVE CollectorLoad(_, _, _, _, _)
CollectorLoad(pairs, answers, k, done, pcLog) ==
    IF k = Len(pairs) THEN [ret |-> "nil", loads |-> done, calls |-> pcLog]
    ELSE IF LoadFunc(pairs[k + 1], answers[k + 1]).load.ret = "err"
    THEN [ret |-> "err",
          loads |-> Append(done, LoadFunc(pairs[k + 1], answers[k + 1]).load),
          calls |-> pcLog \o LoadFunc(pairs[k + 1], answers[k + 1]).calls]
    ELSE CollectorLoad(pairs, answers, k + 1,
                       Append(done, LoadFunc(pairs[k + 1], answers[k + 1]).load),
                       pcLog \o LoadFunc(pairs[k + 1], answers[k + 1]).calls)

\* what Load returns after the collector's Load r, and the collector it leaves:
\* if err := be.updates.Load(...); err != nil { return err }
\* be.initCollector(); return nil
LoadReturn(upd, r) ==
    [ret |-> r.ret, loads |-> r.loads, calls |-> r.calls,
     updates |-> IF r.ret = "err" THEN upd ELSE <<>>]

\* be.Load(load, args) with the invocations and calls made before it
Load(upd, answers, done, pcLog) ==
    LoadReturn(upd, CollectorLoad(SortedPairs(upd), answers, 0, done, pcLog))

InitLoad ==
    /\ branch1 = NilSlice /\ branch2 = NilSlice /\ newData = NilSlice
    /\ EncoderIdle
    /\ op = "init"
    /\ out = NoOut
    /\ OthersIdle

\* be.CollectUpdate(prefix, bitmap, touchMap, afterMap, readCell), the
\* collector's Collect failing or not
DoCollectUpdate ==
    /\ Len(loads) + Len(updates) < MaxPairs
    /\ \E p \in Prefixes, a \in CollectArgs, collectErr \in BOOLEAN :
          \E r \in {CollectUpdate(updates, p,
                                  EncodeBranch(a.bitmap, a.touchMap, a.afterMap, a.row),
                                  collectErr)} :
              /\ out' = [st |-> r.st, lastNibble |-> r.lastNibble]
              /\ updates' = r.updates
              /\ calls' = r.calls
    /\ op' = "CollectUpdate"
    /\ UNCHANGED <<branch1, branch2, branch3, newData, row, bitmap, touchMap, afterMap>>
    /\ UNCHANGED <<mbuf, results, statKey, total, collected, loads, pcCalls>>

\* be.Load(loadToPatriciaContextFunc(pc), args), the PatriciaContext answering
\* the k-th invocation with answers[k]
DoLoad ==
    /\ Len(loads) + Len(updates) <= MaxPairs
    /\ \E answers \in [1..Len(updates) -> PcAnswers] :
          \E r \in {Load(updates, answers, loads, pcCalls)} :
              /\ loads' = r.loads
              /\ pcCalls' = r.calls
              /\ updates' = r.updates
              /\ out' = [st |-> IF r.ret = "err" THEN "err" ELSE "ok"]
    /\ op' = "Load"
    /\ UNCHANGED <<branch1, branch2, branch3, newData, row, bitmap, touchMap, afterMap, calls>>
    /\ UNCHANGED <<mbuf, results, statKey, total, collected>>

NextLoad == DoCollectUpdate \/ DoLoad

SpecLoad == InitLoad /\ [][NextLoad]_vars

\* the calls the protocol allows for one invocation, given what GetBranch and
\* PutBranch returned to it: GetBranch(prefix), then, unless GetBranch failed,
\* one PutBranch with fresh copies of prefix and update and the value and step
\* GetBranch returned
ProtocolCalls(l) ==
    IF l.pos = "GetBranch" THEN <<>>
    ELSE <<GetBranchCall(l)>>
         \o (IF l.got.err \/ l.pos = "PutBranch" THEN <<>>
             ELSE <<[name |-> "PutBranch",
                     prefix |-> IF l.prefix.isNil THEN NilIn ELSE In("copy", l.prefix.data),
                     value |-> IF l.update.isNil THEN NilIn ELSE In("copy", l.update.data),
                     prevValue |-> l.got.value, prevStep |-> l.got.step]>>)

RECURSIVE ProtocolLog(_)
ProtocolLog(n) == IF n = 0 THEN <<>> ELSE ProtocolLog(n - 1) \o ProtocolCalls(loads[n])

\* C18: the calls on the PatriciaContext are, for each delivered pair in turn,
\* GetBranch(prefix) and then exactly one PutBranch with copies of prefix and
\* update and the value and step that GetBranch returned, no PutBranch when
\* GetBranch failed; an error of either call is what the function returns
C18_LoaderProtocol ==
    /\ pcCalls = ProtocolLog(Len(loads))
    /\ \A n \in 1..Len(loads) :
          loads[n].pos = "done" =>
              (loads[n].ret = IF loads[n].got.err \/ loads[n].putErr THEN "err" ELSE "nil")

\* a Load of two collected pairs: the first written back with the stored
\* value and step, the GetBranch of the second failed: three calls in all
C18_Witness ==
    /\ op = "Load" /\ Len(updates) = 2
    /\ Len(loads) = 2 /\ Len(pcCalls) = 3
    /\ loads[1].pos = "done" /\ loads[1].ret = "nil" /\ loads[1].got.step = 3
    /\ loads[1].update.data = <<0, 1, 0, 1, 10, 1, 20, 1, 50>>
    /\ pcCalls[2].name = "PutBranch" /\ pcCalls[2].prevStep = 3
    /\ pcCalls[2].value.data = loads[1].update.data
    /\ loads[2].pos = "done" /\ loads[2].got.err /\ loads[2].ret = "err"

(***************************************************************************)
(* The branch codec as a whole: the inputs of every section above that     *)
(* encodes, decodes, merges or rewrites branches, and all their            *)
(* operations.  The merger's buffer ownership, the statistics and the      *)
(* loader are independent of it and have the specifications SpecOwner,     *)
(* SpecStat and SpecLoad of their own.                                     *)
(***************************************************************************)
Init == InitMerge \/ InitEnc \/ InitRaw \/ InitAssoc \/ InitKeys

Next ==
    \/ DoMerge
    \/ DoMergeHexBranches
    \/ DoDecodeCells
    \/ DoReplacePlainKeys
    \/ DoEncodeBranch
    \/ DoDecodeEncoded
    \/ DoMergeEncoded
    \/ DoMergeChain
    \/ DoReplaceBack

Spec == Init /\ [][Next]_vars

\* C7: whatever bytes are given as a branch, Merge, MergeHexBranches,
\* DecodeCells and ReplacePlainKeys return a result or an error value and
\* never panic.
C7_NeverPanics == out.st # "panic"

\* C8: merging with an empty branch (nil or zero-length) returns the other
\* branch byte for byte, for Merge and for MergeHexBranches.
C8_MergeIdentity ==
    IsMergeOp =>
        /\ Len(branch2.data) = 0 => (out.st = "ok" /\ out.data = branch1.data)
        /\ Len(branch1.data) = 0 => (out.st = "ok" /\ out.data = branch2.data)

====
